---- MODULE Spec2Model ----
(***************************************************************************)
(* Peripheral drivers of the DIM board (STM32L0): the ADC driver adc.c as  *)
(* a state machine.  The state is the driver context adc_ctx, the ADC1 /   *)
(* RCC / GPIO registers the driver writes, the locals of the function in   *)
(* progress and its position (pc).  Every poll iteration, every single     *)
(* conversion and every computation step of the driver is one action.      *)
(* The hardware and the collaborators (LPTIM delay, factory calibration    *)
(* words, analog inputs) are the environment: their answers are drawn with *)
(* \E from small sets.                                                     *)
(***************************************************************************)
EXTENDS Integers, Sequences, FiniteSets, TLC

(***************************************************************************)
(* Bounds of the model.                                                    *)
(***************************************************************************)
\* Iteration ceiling of the poll loops.  adc.c:27 sets 1000000; the loops
\* only compare their counter against it, so the model runs them with a small
\* ceiling.
ADC_TIMEOUT_COUNT == 2
\* Number of ADC1_init / ADC1_perform_measurements calls in one run.
MaxCalls == 2

(***************************************************************************)
(* Program constants of adc.c.                                             *)
(***************************************************************************)
ADC_MEDIAN_FILTER_SIZE == 9
ADC_CENTER_AVERAGE_SIZE == 3
ADC_FULL_SCALE_12BITS == 4095
ADC_VMCU_DEFAULT_MV == 3300
ADC_VOLTAGE_DIVIDER_RATIO_VUSB == 2
ADC_VOLTAGE_DIVIDER_RATIO_VRS == 2

ADC_CHANNEL_VRS == 4
ADC_CHANNEL_VUSB == 5
ADC_CHANNEL_VREFINT == 17
ADC_CHANNEL_TMCU == 18
ADC_CHANNEL_LAST == 19

\* Bit positions of the registers the driver touches.
CR_ADEN == 0
CR_ADDIS == 1
CR_ADSTART == 2
CR_ADVREGEN == 28
CR_ADCAL == 31
ISR_ADRDY == 0
ISR_EOC == 2
ISR_EOCAL == 11
CCR_VREFEN == 22
CCR_TSEN == 23
CFGR2_CKMODE0 == 30
APB2ENR_ADCEN == 9

\* ISR |= 0x0000089F: the flags the write clears (write-one-to-clear).
ISR_CLEAR_MASK == {0, 1, 2, 3, 4, 7, 11}
\* CHSELR &= 0xFFF80000: the channel bits the mask resets.
CHSELR_RESET_BITS == 0..18
\* SMPR |= (0b111 << 0).
SMPR_MAX_BITS == {0, 1, 2}

(***************************************************************************)
(* Declarations of adc.h, adc_reg.h, lptim.h and math.h.                   *)
(***************************************************************************)
\* ADC_status_t (adc.h).
ADC_SUCCESS == 0
ADC_ERROR_NULL_PARAMETER == 1
ADC_ERROR_CHANNEL == 2
ADC_ERROR_TIMEOUT == 3
ADC_ERROR_CALIBRATION == 4
ADC_ERROR_DATA_INDEX == 5
ADC_ERROR_BASE_LPTIM == 256
ADC_ERROR_BASE_MATH == 512

\* ADC_data_index_t (adc.h).
ADC_DATA_INDEX_VMCU_MV == 0
ADC_DATA_INDEX_VUSB_MV == 1
ADC_DATA_INDEX_VRS_MV == 2
ADC_DATA_INDEX_LAST == 3

\* LPTIM_status_t (lptim.h).
LPTIM_SUCCESS == 0
LPTIM_ERROR_DELAY_UNDERFLOW == 1
LPTIM_ERROR_DELAY_OVERFLOW == 2
LPTIM_ERROR_WRITE_ARR == 3

\* MATH_status_t (math.h).
MATH_SUCCESS == 0
MATH_ERROR_NULL_PARAMETER == 1
MATH_ERROR_MEDIAN_FILTER_SIZE == 2

\* Factory calibration conditions (adc_reg.h).
VREFINT_VCC_CALIB_MV == 3000
TS_VCC_CALIB_MV == 3000
TS_CAL1_TEMP == 30
TS_CAL2_TEMP == 130

(***************************************************************************)
(* Integer helpers: C arithmetic on the 32-bit target.                     *)
(***************************************************************************)
Abs(x) == IF x < 0 THEN -x ELSE x

\* C's signed division: the quotient truncates toward zero.
TruncDiv(a, b) ==
    IF (a < 0) = (b < 0) THEN Abs(a) \div Abs(b) ELSE -(Abs(a) \div Abs(b))

\* Conversion to int8_t: the value reduced modulo 2^8 into -128..127.
ToInt8(x) ==
    LET m == x % 256 IN IF m >= 128 THEN m - 256 ELSE m

Half == 256 * 256

\* ((a * b) mod 2^32) / d for a < 2^15, b a uint32_t word (UINT32_MAX
\* included) and 0 < d < 2^15: the
\* uint32_t product and quotient, computed on 16-bit halves so that no
\* intermediate value leaves the 31 bits of the checker's integers.
MulDivU32(a, b, d) ==
    LET bh == b \div Half
        bl == b % Half
        low == a * bl
        hi == ((a * bh) + (low \div Half)) % Half
        lo == low % Half
        r == hi % d
    IN  (hi \div d) * Half + ((r * Half + lo) \div d)

\* The word 0xFFFFFFFF.  The checker's integers end at 2^31 - 1, so the
\* word is written as its two's-complement reading; its halves modulo 2^16
\* are those of the unsigned word.
UINT32_MAX == -1

\* uint32_t division.  Dividing by zero is undefined.  A build whose
\* division traps stops at the division: nothing is stored and the call
\* never returns.  A build that divides in a run-time helper (the target
\* has no divide instruction) gets a word back and goes on: zero, or the
\* saturated quotient.
DivByZeroResults == {"trap", "zero", "saturated"}

\* The word a division by zero that returns leaves as its quotient.
DivByZeroWord(result) == IF result = "zero" THEN 0 ELSE UINT32_MAX

\* The division by d may stop the program.
DivU32Traps(d) == d = 0 /\ "trap" \in DivByZeroResults

\* The quotients a division that returns can yield.
DivU32(n, d) ==
    IF d = 0 THEN {DivByZeroWord(r) : r \in DivByZeroResults \ {"trap"}}
             ELSE {n \div d}

(***************************************************************************)
(* State.                                                                  *)
(***************************************************************************)
VARIABLES
    adc_ctx,          \* static ADC_context_t adc_ctx (adc.c:50)
    ADC1_CR,          \* ADC1 registers, each the set of its bits that are 1
    ADC1_ISR,
    ADC1_CCR,
    ADC1_CHSELR,
    ADC1_CFGR2,
    ADC1_SMPR,
    RCC_APB2ENR,
    gpio_mode,        \* mode GPIO_configure gave each pin
    GPIO_MNTR_EN,     \* level of the analog-enable output
    HW1_1,            \* the build defines HW1_1
    VREFINT_CAL,      \* factory calibration words read by the macros of adc_reg.h
    TS_CAL1,
    TS_CAL2,
    hw_level,         \* raw code the converter returns for each channel
    pc,               \* position of the driver ("idle": no call in progress)
    op,               \* the call in progress or, when idle, the last to return
    status,           \* local 'status' of the call; its return value when idle
    loop_count,       \* local 'loop_count' of the poll loop in progress
    idx,              \* local 'idx' of _ADC1_filtered_conversion
    adc_sample_buf,   \* local 'adc_sample_buf' of _ADC1_filtered_conversion
    adc_channel,      \* parameter 'adc_channel' of the conversion in progress
    raw_12bits,       \* local raw result of _ADC1_compute_tmcu / _vusb / _vrs
    arg,              \* arguments of the last getter call
    out_data,         \* the caller's variable behind 'data' of ADC1_get_data
    out_tmcu,         \* the caller's variable behind 'tmcu_degrees' of ADC1_get_tmcu
    n_calls,          \* ADC1_init / ADC1_perform_measurements calls made so far
    entry_ctx,        \* history: adc_ctx when the current call was entered
    conv_log,         \* history: channel of every conversion started (ADSTART) in the call
    fc_base,          \* history: Len(conv_log) when the filtered conversion was entered
    median_log,       \* history: channel and result of every median filter invocation of the call
    err_log           \* history: status of every failure met in the call, in order

\* The non-volatile memory driver (nvm.c) and the flash interface it drives.
VARIABLES
    FLASH_PECR,       \* FLASH->PECR, the set of its bits that are 1
    FLASH_SR_BSY,     \* FLASH->SR bit 0: a write/erase operation is running
    eeprom,           \* the data EEPROM, byte by offset from EEPROM_START_ADDRESS
    RCC_AHBENR,       \* RCC->AHBENR, the set of its bits that are 1
    nvm_pc,           \* position of the NVM driver ("idle": no call in progress)
    nvm_op,           \* the NVM call in progress or, when idle, the last to return
    nvm_status,       \* local 'status' of the call; its return value when idle
    nvm_loop_count,   \* local 'loop_count' of the poll loop in progress
    nvm_arg,          \* arguments of the call: address_offset, data, data pointer
    nvm_data,         \* the caller's variable behind 'data' of NVM_read_byte
    nvm_calls,        \* NVM calls made so far
    nvm_entry,        \* history: eeprom and FLASH_PECR when the call was entered
    nvm_keys,         \* history: words written to FLASH->PEKEYR in the call
    nvm_access,       \* history: EEPROM accesses of the call, kind and offset
    nvm_written       \* history: the last NVM_write_byte that returned NVM_SUCCESS

nvm_vars ==
    << FLASH_PECR, FLASH_SR_BSY, eeprom, RCC_AHBENR, nvm_pc, nvm_op, nvm_status,
       nvm_loop_count, nvm_arg, nvm_data, nvm_calls, nvm_entry, nvm_keys,
       nvm_access, nvm_written >>

\* The external-interrupt driver (exti.c) and the registers it drives.
VARIABLES
    EXTI_IMR,         \* EXTI registers, each the set of its bits that are 1
    EXTI_RTSR,
    EXTI_FTSR,
    EXTI_PR,          \* pending flags; a 1 written to a bit clears the flag
    SYSCFG_EXTICR,    \* the port field of SYSCFG->EXTICR[], by pin index
    NVIC_priority,    \* priority given to each interrupt line
    exti_op,          \* the last EXTI call or hardware event and its arguments
    exti_calls,       \* EXTI calls made so far
    exti_entry,       \* history: the EXTI registers when the last call was entered
    exti_pr_writes    \* history: words the last call wrote to EXTI->PR

exti_vars ==
    << EXTI_IMR, EXTI_RTSR, EXTI_FTSR, EXTI_PR, SYSCFG_EXTICR, NVIC_priority,
       exti_op, exti_calls, exti_entry, exti_pr_writes >>

\* The clock driver (rcc.c) and the registers it drives.
VARIABLES
    rcc_sysclk_khz,   \* static uint32_t rcc_sysclk_khz (rcc.c:26)
    RCC_CR,           \* RCC->CR, the set of its bits that are 1
    RCC_CFGR,         \* RCC->CFGR: its SW and SWS fields
    RCC_CSR,          \* RCC->CSR, the set of its bits that are 1
    flash_latency,    \* wait states FLASH_set_latency programmed
    rcc_pc,           \* position of the RCC driver ("idle": no call in progress)
    rcc_op,           \* the RCC call in progress or, when idle, the last to return
    rcc_status,       \* local 'status' of the call; its return value when idle
    rcc_loop_count,   \* local 'loop_count' of the poll loop in progress
    rcc_out,          \* value returned by RCC_get_sysclk_khz or stored through lsi_frequency_hz
    rcc_sample_idx,   \* local 'sample_idx' of RCC_get_lsi_frequency
    TIM21_enabled,    \* the measurement timer runs (TIM21_init .. TIM21_disable)
    rcc_calls,        \* RCC calls made so far
    rcc_entry,        \* history: RCC->CR and rcc_sysclk_khz when the call was entered
    rcc_seen,         \* history: what the polls of the call read last
    rcc_inited,       \* history: RCC_init has been called
    rcc_switched      \* history: RCC_switch_to_hsi returned success since the last RCC_init

rcc_vars ==
    << rcc_sysclk_khz, RCC_CR, RCC_CFGR, RCC_CSR, flash_latency, rcc_pc, rcc_op,
       rcc_status, rcc_loop_count, rcc_out, rcc_sample_idx, TIM21_enabled,
       rcc_calls, rcc_entry, rcc_seen, rcc_inited, rcc_switched >>

\* What only RCC_get_lsi_frequency changes.
lsi_locals == << rcc_sample_idx, TIM21_enabled >>

\* The variables of the ADC driver and of the hardware it drives, but for
\* the clock-enable register it shares.
adc_own ==
    << adc_ctx, ADC1_CR, ADC1_ISR, ADC1_CCR, ADC1_CHSELR, ADC1_CFGR2, ADC1_SMPR,
       gpio_mode, GPIO_MNTR_EN, HW1_1, VREFINT_CAL, TS_CAL1, TS_CAL2,
       hw_level, pc, op, status, loop_count, idx, adc_sample_buf, adc_channel,
       raw_12bits, arg, out_data, out_tmcu, n_calls, entry_ctx, conv_log, fc_base,
       median_log, err_log >>

adc_vars == << adc_own, RCC_APB2ENR >>

vars == << adc_vars, nvm_vars, exti_vars, rcc_vars >>

\* The variables no action of the ADC driver ever changes.
env_vars == << HW1_1, VREFINT_CAL, TS_CAL1, TS_CAL2, hw_level, nvm_vars, exti_vars, rcc_vars >>
\* The registers only ADC1_init writes.
init_regs == << ADC1_CFGR2, ADC1_SMPR, RCC_APB2ENR, gpio_mode >>
\* The locals of the conversion functions.
conv_locals == << idx, adc_sample_buf, adc_channel, raw_12bits >>
\* The caller's side of the getters.
getter_vars == << arg, out_data, out_tmcu >>
\* The history of the conversions of a call.
conv_hist == << conv_log, fc_base, median_log >>

Channels == {ADC_CHANNEL_VRS, ADC_CHANNEL_VUSB, ADC_CHANNEL_VREFINT, ADC_CHANNEL_TMCU}
DataIndexes == 0..(ADC_DATA_INDEX_LAST - 1)
Pins == {"ADC1_IN4", "ADC1_IN5", "MNTR_EN"}

\* Raw codes the analog inputs take in the model (12 bits: 0..4095), by
\* channel: a dead and a nominal bandgap reading, a nominal temperature
\* reading, a USB input and a sense input.
RawLevels ==
    { f \in [Channels -> {0, 650, 1500, 4095}] :
         /\ f[ADC_CHANNEL_VREFINT] \in {0, 1500}
         /\ f[ADC_CHANNEL_TMCU] = 650
         /\ f[ADC_CHANNEL_VUSB] = 4095
         /\ f[ADC_CHANNEL_VRS] = 650 }
\* Factory calibration words of the modelled chips.
FactoryWords == {[vrefint_cal |-> 1500, ts_cal1 |-> 600, ts_cal2 |-> 700]}
\* Values the caller's output variables hold before a getter writes them.
Unwritten == -1

\* adc_ctx reset without the default of the supply-voltage slot.
ContextReset_no_default ==
    [vrefint_12bits |-> 0, data |-> [i \in DataIndexes |-> 0], tmcu_degrees |-> 0]

\* adc_ctx as ADC1_init leaves it (adc.c:214-217).
ContextReset ==
    [vrefint_12bits |-> 0,
     data |-> [i \in DataIndexes |->
                  IF i = ADC_DATA_INDEX_VMCU_MV THEN ADC_VMCU_DEFAULT_MV ELSE 0],
     tmcu_degrees |-> 0]

(***************************************************************************)
(* The NVM driver: constants and reset state.                              *)
(***************************************************************************)
\* Poll iterations before a busy-wait loop of nvm.c gives up (1000000 in
\* the code).
NVM_TIMEOUT_COUNT == 2
\* Size of the data EEPROM in bytes (flash_reg.h).
EEPROM_SIZE_BYTES == 2
\* NVM calls in one behaviour.
MaxNvmCalls == 3

PECR_PELOCK == 0
AHBENR_MIFEN == 8
\* The two words of the unlock sequence, each as its high and low half.
FLASH_PEKEY1 == << 35243, 52719 >>
FLASH_PEKEY2 == << 515, 1029 >>

NVM_SUCCESS == "NVM_SUCCESS"
NVM_ERROR_NULL_PARAMETER == "NVM_ERROR_NULL_PARAMETER"
NVM_ERROR_ADDRESS == "NVM_ERROR_ADDRESS"
NVM_ERROR_UNLOCK == "NVM_ERROR_UNLOCK"
NVM_ERROR_LOCK == "NVM_ERROR_LOCK"
NVM_ERROR_WRITE == "NVM_ERROR_WRITE"

\* Offsets of the bytes of the EEPROM, offsets a caller passes (one is past
\* the end) and byte values it writes.
EepromOffsets == 0..(EEPROM_SIZE_BYTES - 1)
NvmAddresses == 0..EEPROM_SIZE_BYTES
NvmBytes == {0, 165, 255}

\* No successful write yet.
NothingWritten == [valid |-> FALSE, address_offset |-> 0, data |-> 0]

\* The flash interface after reset (PECR locked, no operation running), an
\* erased EEPROM and the driver's bookkeeping before any call.
NvmReset ==
    /\ FLASH_PECR = {PECR_PELOCK}
    /\ FLASH_SR_BSY = FALSE
    /\ eeprom = [o \in EepromOffsets |-> 0]
    /\ RCC_AHBENR = {}
    /\ nvm_pc = "idle" /\ nvm_op = "none" /\ nvm_status = NVM_SUCCESS
    /\ nvm_loop_count = 0
    /\ nvm_arg = [address_offset |-> 0, data |-> 0, ptr |-> "none"]
    /\ nvm_data = Unwritten
    /\ nvm_calls = 0
    /\ nvm_entry = [eeprom |-> eeprom, pecr |-> FLASH_PECR]
    /\ nvm_keys = << >> /\ nvm_access = << >>
    /\ nvm_written = NothingWritten

(***************************************************************************)
(* The EXTI driver: constants and reset state.                             *)
(***************************************************************************)
EXTI_RTSR_FTSR_RESERVED_INDEX == 18
EXTI_RTSR_FTSR_MAX_INDEX == 22
\* EXTI calls and hardware events in one behaviour.
MaxExtiCalls == 3

APB2ENR_SYSCFGEN == 0
\* The bits of 0x007BFFFF, the word EXTI_clear_all_flags writes.
EXTI_PR_ALL_FLAGS == (0..17) \cup (19..22)

EXTI_TRIGGER_RISING_EDGE == "EXTI_TRIGGER_RISING_EDGE"
EXTI_TRIGGER_FALLING_EDGE == "EXTI_TRIGGER_FALLING_EDGE"
EXTI_TRIGGER_ANY_EDGE == "EXTI_TRIGGER_ANY_EDGE"
\* The triggers a caller passes: the three of the switch and a value that
\* is none of them.
ExtiTriggers ==
    {EXTI_TRIGGER_RISING_EDGE, EXTI_TRIGGER_FALLING_EDGE, EXTI_TRIGGER_ANY_EDGE,
     "EXTI_TRIGGER_LAST"}
\* The internal lines a caller passes: the reserved one, the last with an
\* edge selector and the first past it.
ExtiLines == {18, 22, 23}
\* The pins a caller passes, by pin index and port index.
ExtiGpios ==
    {[pin_index |-> 3, port_index |-> 0], [pin_index |-> 13, port_index |-> 1]}
NvicInterrupts == {"NVIC_INTERRUPT_EXTI_0_1", "NVIC_INTERRUPT_EXTI_4_15"}

ExtiRegisters ==
    [imr |-> EXTI_IMR, rtsr |-> EXTI_RTSR, ftsr |-> EXTI_FTSR, pr |-> EXTI_PR]

\* The EXTI and SYSCFG registers after reset and the driver's bookkeeping
\* before any call.
ExtiReset ==
    /\ EXTI_IMR = {18} \cup (23..29)
    /\ EXTI_RTSR = {} /\ EXTI_FTSR = {} /\ EXTI_PR = {}
    /\ SYSCFG_EXTICR = [p \in 0..15 |-> 0]
    /\ NVIC_priority = [i \in NvicInterrupts |-> 0]
    /\ exti_op = [name |-> "none", line |-> 0, trigger |-> "none"]
    /\ exti_calls = 0
    /\ exti_entry = ExtiRegisters
    /\ exti_pr_writes = << >>

(***************************************************************************)
(* The RCC driver: constants and reset state.                              *)
(***************************************************************************)
\* Poll iterations before a busy-wait loop of rcc.c gives up (1000000 in
\* the code).
RCC_TIMEOUT_COUNT == 2
\* RCC calls in one behaviour.
MaxRccCalls == 3

RCC_MSI_RESET_FREQUENCY_KHZ_rounded == 2 * 1000

RCC_MSI_RESET_FREQUENCY_KHZ == 2100
RCC_LSI_AVERAGING_COUNT == 5
RCC_LSI_FREQUENCY_MIN_HZ == 26000
RCC_LSI_FREQUENCY_MAX_HZ == 56000
\* rcc.h: the HSI is the 16 MHz internal oscillator (rcc.c:36, 44).
RCC_HSI_FREQUENCY_KHZ == 16000
\* rcc.h: the nominal LSI frequency.
RCC_LSI_FREQUENCY_HZ == 38000

CR_HSI16ON == 0
CR_HSIRDYF == 2
CR_MSION == 8
CSR_LSION == 0
CSR_LSIRDY == 1
CSR_LSEON == 8
CSR_LSERDY == 9
\* Values of the SW and SWS fields of RCC->CFGR.
CFGR_MSI == 0
CFGR_HSI == 1

\* A status of RCC_status_t: one of the driver's own, or a collaborator's
\* status added to the base of its range.
RccStatus(name) == [base |-> "RCC", code |-> name]
RCC_SUCCESS == RccStatus("RCC_SUCCESS")
RCC_ERROR_NULL_PARAMETER == RccStatus("RCC_ERROR_NULL_PARAMETER")
RCC_ERROR_HSI_READY == RccStatus("RCC_ERROR_HSI_READY")
RCC_ERROR_HSI_SWITCH == RccStatus("RCC_ERROR_HSI_SWITCH")
RCC_ERROR_LSI_READY == RccStatus("RCC_ERROR_LSI_READY")
RCC_ERROR_LSI_MEASUREMENT == RccStatus("RCC_ERROR_LSI_MEASUREMENT")
RCC_ERROR_LSE_READY == RccStatus("RCC_ERROR_LSE_READY")
RCC_ERROR_BASE_FLASH == "RCC_ERROR_BASE_FLASH"
RCC_ERROR_BASE_TIM == "RCC_ERROR_BASE_TIM"
\* Statuses of the collaborators FLASH_set_latency and
\* TIM21_get_lsi_frequency.
FLASH_SUCCESS == "FLASH_SUCCESS"
FLASH_statuses == {FLASH_SUCCESS, "FLASH_ERROR_LATENCY", "FLASH_ERROR_TIMEOUT"}
TIM_SUCCESS == "TIM_SUCCESS"
TIM_statuses == {TIM_SUCCESS, "TIM_ERROR_INTERRUPT_TIMEOUT"}
\* Frequencies one TIM21 measurement of the LSI yields, in Hz.
LsiSamples == {20000, 60000}

NothingSeen == [hsirdy |-> FALSE, sws |-> CFGR_MSI]

\* The RCC registers after reset (running on the MSI, HSI, LSI and LSE
\* off), the zero-initialised static and the bookkeeping before any call.
RccReset ==
    /\ rcc_sysclk_khz = 0
    /\ RCC_CR = {CR_MSION}
    /\ RCC_CFGR = [sw |-> CFGR_MSI, sws |-> CFGR_MSI]
    /\ RCC_CSR = {}
    /\ flash_latency = 0
    /\ rcc_pc = "idle" /\ rcc_op = "none" /\ rcc_status = RCC_SUCCESS
    /\ rcc_loop_count = 0
    /\ rcc_out = Unwritten
    /\ rcc_sample_idx = 0 /\ TIM21_enabled = FALSE
    /\ rcc_calls = 0
    /\ rcc_entry = [cr |-> RCC_CR, sysclk_khz |-> rcc_sysclk_khz]
    /\ rcc_seen = NothingSeen
    /\ rcc_inited = FALSE /\ rcc_switched = FALSE

\* Zero-initialised statics and reset values of the registers.
Init ==
    /\ adc_ctx = [vrefint_12bits |-> 0, data |-> [i \in DataIndexes |-> 0],
                  tmcu_degrees |-> 0]
    /\ ADC1_CR = {} /\ ADC1_ISR = {} /\ ADC1_CCR = {} /\ ADC1_CHSELR = {}
    /\ ADC1_CFGR2 = {} /\ ADC1_SMPR = {} /\ RCC_APB2ENR = {}
    /\ gpio_mode = [p \in Pins |-> "reset"]
    /\ GPIO_MNTR_EN = 0
    /\ HW1_1 \in BOOLEAN
    /\ \E f \in FactoryWords :
          VREFINT_CAL = f.vrefint_cal /\ TS_CAL1 = f.ts_cal1 /\ TS_CAL2 = f.ts_cal2
    /\ hw_level \in RawLevels
    /\ pc = "idle" /\ op = "none" /\ status = ADC_SUCCESS
    /\ loop_count = 0 /\ idx = 0
    /\ adc_sample_buf = [i \in 1..ADC_MEDIAN_FILTER_SIZE |-> 0]
    /\ adc_channel = ADC_CHANNEL_LAST /\ raw_12bits = 0
    /\ arg = [data_idx |-> 0, ptr |-> "none"]
    /\ out_data = Unwritten /\ out_tmcu = Unwritten
    /\ n_calls = 0
    /\ entry_ctx = adc_ctx
    /\ conv_log = << >> /\ fc_base = 0 /\ median_log = << >> /\ err_log = << >>
    /\ NvmReset
    /\ ExtiReset
    /\ RccReset

\* What entering any call does to the model's bookkeeping.
EnterCall(name) ==
    /\ op' = name
    /\ entry_ctx' = adc_ctx
    /\ conv_log' = << >> /\ fc_base' = 0 /\ median_log' = << >> /\ err_log' = << >>

\* The caller's getter variables are gone when it makes another call.
ForgetGetters ==
    /\ arg' = [data_idx |-> 0, ptr |-> "none"]
    /\ out_data' = Unwritten /\ out_tmcu' = Unwritten

\* 'goto errors' of ADC1_perform_measurements and of the functions it calls:
\* every failure continues at the 'errors' label (adc.c:288).
ErrorExit_return == "idle"

\* A failure that is not tested: the next step runs.
ErrorExit_continue == "vmcu"

ErrorExit == "errors"

(***************************************************************************)
(* Collaborators.                                                          *)
(***************************************************************************)
\* LPTIM1_delay_milliseconds: the statuses it can return.
LPTIM_statuses ==
    {LPTIM_SUCCESS, LPTIM_ERROR_DELAY_UNDERFLOW, LPTIM_ERROR_DELAY_OVERFLOW,
     LPTIM_ERROR_WRITE_ARR}

\* The delay's status returned as it is, without the ADC error base.
LPTIM1_status_check_raw(error_base, lptim1_status, old_status) ==
    IF lptim1_status # LPTIM_SUCCESS THEN lptim1_status ELSE old_status

\* The delay's status dropped instead of checked.
LPTIM1_status_check_dropped(error_base, lptim1_status, old_status) == old_status

\* LPTIM1_status_check(error_base): the status the macro leaves.
LPTIM1_status_check(error_base, lptim1_status, old_status) ==
    IF lptim1_status # LPTIM_SUCCESS THEN error_base + lptim1_status ELSE old_status

(***************************************************************************)
(* ADC1_init (adc.c:207-249).                                              *)
(***************************************************************************)
\* A calibration ceiling reached one iteration early.
CalibrationTimedOut_early(count) == count >= ADC_TIMEOUT_COUNT

\* The loop guard of the calibration poll: loop_count > ADC_TIMEOUT_COUNT.
CalibrationTimedOut(count) == count > ADC_TIMEOUT_COUNT

\* Lines 209-231: reset the context, configure the pins, enable the clock,
\* request the disable of an enabled converter, enable the regulator.
ADC1_init_enter ==
    /\ pc = "idle" /\ n_calls < MaxCalls
    /\ n_calls' = n_calls + 1
    /\ EnterCall("init") /\ ForgetGetters
    /\ status' = ADC_SUCCESS /\ loop_count' = 0
    /\ adc_ctx' = ContextReset
    /\ gpio_mode' = [p \in Pins |->
                        IF p \in {"ADC1_IN4", "ADC1_IN5"} THEN "analog"
                        ELSE IF HW1_1 THEN "output" ELSE gpio_mode[p]]
    /\ RCC_APB2ENR' = RCC_APB2ENR \cup {APB2ENR_ADCEN}
    /\ ADC1_CR' = (IF CR_ADEN \in ADC1_CR THEN ADC1_CR \cup {CR_ADDIS} ELSE ADC1_CR)
                     \cup {CR_ADVREGEN}
    /\ pc' = "init_delay"
    /\ UNCHANGED << ADC1_ISR, ADC1_CCR, ADC1_CHSELR, ADC1_CFGR2, ADC1_SMPR,
                    GPIO_MNTR_EN, env_vars, conv_locals >>

\* Lines 232-238: the 5 ms delay; on success the clock and sampling
\* configuration and the start of the calibration.
ADC1_init_delay ==
    /\ pc = "init_delay"
    /\ \E lptim1_status \in LPTIM_statuses :
          /\ status' = LPTIM1_status_check(ADC_ERROR_BASE_LPTIM, lptim1_status, status)
          /\ IF lptim1_status # LPTIM_SUCCESS
             THEN /\ pc' = "idle"
                  /\ err_log' = Append(err_log, ADC_ERROR_BASE_LPTIM + lptim1_status)
                  /\ UNCHANGED << ADC1_CFGR2, ADC1_SMPR, ADC1_CR >>
             ELSE /\ pc' = "init_cal_poll"
                  /\ ADC1_CFGR2' = ADC1_CFGR2 \cup {CFGR2_CKMODE0}
                  /\ ADC1_SMPR' = ADC1_SMPR \cup SMPR_MAX_BITS
                  /\ ADC1_CR' = ADC1_CR \cup {CR_ADCAL}
                  /\ UNCHANGED err_log
    /\ UNCHANGED << adc_ctx, ADC1_ISR, ADC1_CCR, ADC1_CHSELR, RCC_APB2ENR, gpio_mode,
                    GPIO_MNTR_EN, env_vars, op, loop_count, conv_locals, getter_vars,
                    n_calls, entry_ctx, conv_hist >>

\* Lines 239-248: one evaluation of the loop condition and, when it holds, one
\* pass of the loop body.  Before the registers are read the hardware may
\* have cleared ADCAL and may have set the end-of-calibration flag.
ADC1_init_cal_poll ==
    /\ pc = "init_cal_poll"
    /\ \E adcal_cleared \in BOOLEAN, eocal_set \in BOOLEAN :
          LET cr == IF adcal_cleared THEN ADC1_CR \ {CR_ADCAL} ELSE ADC1_CR
              isr == IF eocal_set THEN ADC1_ISR \cup {ISR_EOCAL} ELSE ADC1_ISR
          IN  /\ ADC1_CR' = cr
              /\ ADC1_ISR' = isr
              /\ IF CR_ADCAL \in cr /\ ISR_EOCAL \notin isr
                 THEN /\ loop_count' = loop_count + 1
                      /\ IF CalibrationTimedOut(loop_count + 1)
                         THEN /\ status' = ADC_ERROR_CALIBRATION
                              /\ err_log' = Append(err_log, ADC_ERROR_CALIBRATION)
                              /\ pc' = "idle"
                         ELSE UNCHANGED << status, err_log, pc >>
                 ELSE /\ pc' = "idle"
                      /\ UNCHANGED << status, err_log, loop_count >>
    /\ UNCHANGED << adc_ctx, ADC1_CCR, ADC1_CHSELR, init_regs, GPIO_MNTR_EN, env_vars,
                    op, conv_locals, getter_vars, n_calls, entry_ctx, conv_hist >>

(***************************************************************************)
(* Hardware between two calls.                                             *)
(***************************************************************************)
\* The converter serves a pending disable request (ADDIS): it leaves the
\* enabled state and takes the request bits back.
HW_ADC_disable ==
    /\ pc = "idle"
    /\ CR_ADDIS \in ADC1_CR
    /\ ADC1_CR' = ADC1_CR \ {CR_ADEN, CR_ADDIS, CR_ADSTART}
    /\ UNCHANGED << adc_ctx, ADC1_ISR, ADC1_CCR, ADC1_CHSELR, init_regs, GPIO_MNTR_EN,
                    env_vars, pc, op, status, loop_count, conv_locals, getter_vars,
                    n_calls, entry_ctx, conv_hist, err_log >>

(***************************************************************************)
(* MATH_median_filter_u32 (math.h): sort the samples and average the       *)
(* average_length middle ones.                                             *)
(***************************************************************************)
SumSeq(s) ==
    LET RECURSIVE Sum(_)
        Sum(n) == IF n = 0 THEN 0 ELSE s[n] + Sum(n - 1)
    IN  Sum(Len(s))

MATH_median_filter_u32(buf, median_length, average_length) ==
    IF median_length = 0 \/ average_length > median_length
    THEN [status |-> MATH_ERROR_MEDIAN_FILTER_SIZE, value |-> 0]
    ELSE LET sorted == SortSeq(buf, LAMBDA a, b : a < b)
             first == (median_length \div 2) - (average_length \div 2) + 1
             last == first + average_length - 1
         IN  [status |-> MATH_SUCCESS,
              value |-> SumSeq(SubSeq(sorted, first, last)) \div average_length]

\* MATH_status_check(error_base): the status the macro leaves.
MATH_status_check(error_base, math_status, old_status) ==
    IF math_status # MATH_SUCCESS THEN error_base + math_status ELSE old_status

(***************************************************************************)
(* _ADC1_single_conversion (adc.c:59-90) and _ADC1_filtered_conversion     *)
(* (adc.c:97-122).                                                         *)
(***************************************************************************)
\* The loop guards of the poll loops: loop_count > ADC_TIMEOUT_COUNT.
ConversionTimedOut(count) == count > ADC_TIMEOUT_COUNT

ReadyTimedOut(count) == count > ADC_TIMEOUT_COUNT

\* A sample loop that stops one sample short.
MoreSamples_short(i) == i < ADC_MEDIAN_FILTER_SIZE - 1

\* The condition of the sample loop: idx < ADC_MEDIAN_FILTER_SIZE.
MoreSamples(i) == i < ADC_MEDIAN_FILTER_SIZE

\* The parameter check both conversion functions start with (the result
\* pointers the driver passes are never NULL).
ChannelCheck(channel) ==
    IF channel >= ADC_CHANNEL_LAST THEN ADC_ERROR_CHANNEL ELSE ADC_SUCCESS

\* The data register: the code of the channel CHSELR selects.
ADC1_DR(chselr) == hw_level[CHOOSE c \in Channels : c \in chselr]

\* Lines 99-113 of _ADC1_filtered_conversion, entered for 'channel' with
\* status 'st': the parameter check, the zeroed sample buffer, idx = 0.
FilteredConversionEnter(channel, st) ==
    /\ adc_channel' = channel
    /\ idx' = 0
    /\ adc_sample_buf' = [i \in 1..ADC_MEDIAN_FILTER_SIZE |-> 0]
    /\ fc_base' = Len(conv_log)
    /\ IF ChannelCheck(channel) # ADC_SUCCESS
       THEN /\ status' = ChannelCheck(channel)
            /\ err_log' = Append(err_log, ChannelCheck(channel))
            /\ pc' = ErrorExit
       ELSE /\ status' = st
            /\ UNCHANGED err_log
            /\ pc' = "sc_start"

\* Lines 61-78 of _ADC1_single_conversion: the parameter check, the channel
\* selection, the flags cleared, the conversion started.
ADC1_single_conversion_start ==
    /\ pc = "sc_start"
    /\ IF ChannelCheck(adc_channel) # ADC_SUCCESS
       THEN /\ status' = ChannelCheck(adc_channel)
            /\ err_log' = Append(err_log, ChannelCheck(adc_channel))
            /\ pc' = ErrorExit
            /\ UNCHANGED << ADC1_CHSELR, ADC1_ISR, ADC1_CR, loop_count, conv_log >>
       ELSE /\ ADC1_CHSELR' = (ADC1_CHSELR \ CHSELR_RESET_BITS) \cup {adc_channel}
            /\ ADC1_ISR' = ADC1_ISR \ ISR_CLEAR_MASK
            /\ ADC1_CR' = ADC1_CR \cup {CR_ADSTART}
            /\ loop_count' = 0
            /\ conv_log' = Append(conv_log, adc_channel)
            /\ pc' = "sc_poll"
            /\ UNCHANGED << status, err_log >>
    /\ UNCHANGED << adc_ctx, ADC1_CCR, init_regs, GPIO_MNTR_EN, env_vars, op,
                    conv_locals, getter_vars, n_calls, entry_ctx, fc_base, median_log >>

\* Lines 79-87 and 113-116: one evaluation of the poll condition.  Before ISR
\* is read the hardware may have ended the conversion (EOC).  With EOC the
\* sample is stored and the sample loop goes on or ends; without it the
\* counter advances, and past the ceiling the conversion, the filtered
\* conversion and the compute function return ADC_ERROR_TIMEOUT.
ADC1_single_conversion_poll ==
    /\ pc = "sc_poll"
    /\ \E eoc_set \in BOOLEAN :
          LET isr == IF eoc_set THEN ADC1_ISR \cup {ISR_EOC} ELSE ADC1_ISR
          IN  /\ ADC1_ISR' = isr
              /\ IF ISR_EOC \notin isr
                 THEN /\ loop_count' = loop_count + 1
                      /\ IF ConversionTimedOut(loop_count + 1)
                         THEN /\ status' = ADC_ERROR_TIMEOUT
                              /\ err_log' = Append(err_log, ADC_ERROR_TIMEOUT)
                              /\ pc' = ErrorExit
                         ELSE UNCHANGED << status, err_log, pc >>
                      /\ UNCHANGED << adc_sample_buf, idx >>
                 ELSE /\ adc_sample_buf' =
                             [adc_sample_buf EXCEPT ![idx + 1] = ADC1_DR(ADC1_CHSELR)]
                      /\ idx' = idx + 1
                      /\ pc' = IF MoreSamples(idx + 1) THEN "sc_start" ELSE "median"
                      /\ UNCHANGED << status, err_log, loop_count >>
    /\ UNCHANGED << adc_ctx, ADC1_CR, ADC1_CCR, ADC1_CHSELR, init_regs, GPIO_MNTR_EN,
                    env_vars, op, adc_channel, raw_12bits, getter_vars, n_calls,
                    entry_ctx, conv_hist >>

\* The temperature and USB results handed to each other's compute step.
AfterChannel_swapped(channel) ==
    CASE channel = ADC_CHANNEL_VREFINT -> "vmcu"
      [] channel = ADC_CHANNEL_TMCU -> "vusb"
      [] channel = ADC_CHANNEL_VUSB -> "tmcu"
      [] OTHER -> "vrs"

\* The step of the compute function that follows the filtered conversion of
\* a channel.
AfterChannel(channel) ==
    CASE channel = ADC_CHANNEL_VREFINT -> "vmcu"
      [] channel = ADC_CHANNEL_TMCU -> "tmcu"
      [] channel = ADC_CHANNEL_VUSB -> "vusb"
      [] OTHER -> "vrs"

\* Lines 117-121: the median filter over the nine samples.  Its result goes
\* to the slot the caller passed: adc_ctx.vrefint_12bits for the bandgap
\* channel (line 132), the caller's local for the other channels.
ADC1_filtered_conversion_median ==
    /\ pc = "median"
    /\ LET r == MATH_median_filter_u32(adc_sample_buf, ADC_MEDIAN_FILTER_SIZE,
                                       ADC_CENTER_AVERAGE_SIZE)
       IN  /\ median_log' = Append(median_log, [channel |-> adc_channel, value |-> r.value])
           /\ status' = MATH_status_check(ADC_ERROR_BASE_MATH, r.status, status)
           /\ IF r.status # MATH_SUCCESS
              THEN /\ err_log' = Append(err_log, ADC_ERROR_BASE_MATH + r.status)
                   /\ pc' = ErrorExit
                   /\ UNCHANGED << adc_ctx, raw_12bits >>
              ELSE /\ UNCHANGED err_log
                   /\ pc' = AfterChannel(adc_channel)
                   /\ IF adc_channel = ADC_CHANNEL_VREFINT
                      THEN /\ adc_ctx' = [adc_ctx EXCEPT !.vrefint_12bits = r.value]
                           /\ UNCHANGED raw_12bits
                      ELSE /\ raw_12bits' = r.value
                           /\ UNCHANGED adc_ctx
    /\ UNCHANGED << ADC1_CR, ADC1_ISR, ADC1_CCR, ADC1_CHSELR, init_regs, GPIO_MNTR_EN,
                    env_vars, op, loop_count, idx, adc_sample_buf, adc_channel,
                    getter_vars, n_calls, entry_ctx, conv_log, fc_base >>

(***************************************************************************)
(* The conversions to physical units (adc.c:140-199).                      *)
(***************************************************************************)
\* Line 24.
ADC_VREFINT_VOLTAGE_MV == (VREFINT_CAL * VREFINT_VCC_CALIB_MV) \div ADC_FULL_SCALE_12BITS

\* A supply voltage derived with the default supply in place of the
\* calibration supply.
compute_vmcu_default_mv(vrefint_12bits) ==
    DivU32(VREFINT_CAL * ADC_VMCU_DEFAULT_MV, vrefint_12bits)

\* Line 142: the values the division can leave in the supply-voltage slot.
compute_vmcu(vrefint_12bits) ==
    DivU32(VREFINT_CAL * VREFINT_VCC_CALIB_MV, vrefint_12bits)

\* A temperature computed with a division that rounds toward minus infinity.
compute_tmcu_floor(raw_temp_sensor_12bits, vmcu_mv) ==
    LET raw_temp_calib_mv ==
            MulDivU32(raw_temp_sensor_12bits, vmcu_mv, TS_VCC_CALIB_MV) - TS_CAL1
        temp_calib_degrees ==
            (raw_temp_calib_mv * (TS_CAL2_TEMP - TS_CAL1_TEMP)) \div (TS_CAL2 - TS_CAL1)
    IN  ToInt8(temp_calib_degrees + TS_CAL1_TEMP)

\* Lines 159-162.  The product is a uint32_t product, the first quotient is
\* below 2^32 / TS_VCC_CALIB_MV, so that the difference with TS_CAL1, read as
\* an int32_t, is the signed difference; the second division is signed; the
\* sum is stored in an int8_t.
compute_tmcu(raw_temp_sensor_12bits, vmcu_mv) ==
    LET raw_temp_calib_mv ==
            MulDivU32(raw_temp_sensor_12bits, vmcu_mv, TS_VCC_CALIB_MV) - TS_CAL1
        temp_calib_degrees ==
            TruncDiv(raw_temp_calib_mv * (TS_CAL2_TEMP - TS_CAL1_TEMP), TS_CAL2 - TS_CAL1)
    IN  ToInt8(temp_calib_degrees + TS_CAL1_TEMP)

\* Line 179.
compute_vusb(vusb_12bits, vrefint_12bits) ==
    DivU32(ADC_VREFINT_VOLTAGE_MV * vusb_12bits * ADC_VOLTAGE_DIVIDER_RATIO_VUSB,
           vrefint_12bits)

\* Line 196.
compute_vrs(vrs_12bits, vrefint_12bits) ==
    DivU32(ADC_VREFINT_VOLTAGE_MV * vrs_12bits * ADC_VOLTAGE_DIVIDER_RATIO_VRS,
           vrefint_12bits)

(***************************************************************************)
(* ADC1_perform_measurements (adc.c:255-298).                              *)
(***************************************************************************)
\* Lines 257-261: the converter enabled.
ADC1_perform_measurements_enter ==
    /\ pc = "idle" /\ n_calls < MaxCalls
    /\ n_calls' = n_calls + 1
    /\ EnterCall("perform") /\ ForgetGetters
    /\ status' = ADC_SUCCESS /\ loop_count' = 0
    /\ ADC1_CR' = ADC1_CR \cup {CR_ADEN}
    /\ pc' = "ready_poll"
    /\ UNCHANGED << adc_ctx, ADC1_ISR, ADC1_CCR, ADC1_CHSELR, init_regs, GPIO_MNTR_EN,
                    env_vars, conv_locals >>

\* Lines 262-275: one evaluation of the ready poll.  Before ISR is read the
\* hardware may have set ADRDY.  With ADRDY the voltage dividers and the
\* internal sources are switched on.
ADC1_perform_measurements_ready_poll ==
    /\ pc = "ready_poll"
    /\ \E adrdy_set \in BOOLEAN :
          LET isr == IF adrdy_set THEN ADC1_ISR \cup {ISR_ADRDY} ELSE ADC1_ISR
          IN  /\ ADC1_ISR' = isr
              /\ IF ISR_ADRDY \notin isr
                 THEN /\ loop_count' = loop_count + 1
                      /\ IF ReadyTimedOut(loop_count + 1)
                         THEN /\ status' = ADC_ERROR_TIMEOUT
                              /\ err_log' = Append(err_log, ADC_ERROR_TIMEOUT)
                              /\ pc' = ErrorExit
                         ELSE UNCHANGED << status, err_log, pc >>
                      /\ UNCHANGED << GPIO_MNTR_EN, ADC1_CCR >>
                 ELSE /\ GPIO_MNTR_EN' = IF HW1_1 THEN 1 ELSE GPIO_MNTR_EN
                      /\ ADC1_CCR' = ADC1_CCR \cup {CCR_VREFEN, CCR_TSEN}
                      /\ pc' = "settle_delay"
                      /\ UNCHANGED << status, err_log, loop_count >>
    /\ UNCHANGED << adc_ctx, ADC1_CR, ADC1_CHSELR, init_regs, env_vars, op,
                    conv_locals, getter_vars, n_calls, entry_ctx, conv_hist >>

\* Lines 277-280: the 100 ms settling delay, then _ADC1_compute_vrefint
\* enters the filtered conversion of the bandgap channel.
ADC1_perform_measurements_delay ==
    /\ pc = "settle_delay"
    /\ \E lptim1_status \in LPTIM_statuses :
          IF lptim1_status # LPTIM_SUCCESS
          THEN /\ status' = LPTIM1_status_check(ADC_ERROR_BASE_LPTIM, lptim1_status, status)
               /\ err_log' = Append(err_log, ADC_ERROR_BASE_LPTIM + lptim1_status)
               /\ pc' = ErrorExit
               /\ UNCHANGED << idx, adc_sample_buf, adc_channel, fc_base >>
          ELSE FilteredConversionEnter(ADC_CHANNEL_VREFINT, status)
    /\ UNCHANGED << adc_ctx, ADC1_CR, ADC1_ISR, ADC1_CCR, ADC1_CHSELR, init_regs,
                    GPIO_MNTR_EN, env_vars, op, loop_count, raw_12bits, getter_vars,
                    n_calls, entry_ctx, conv_log, median_log >>

\* What every compute step leaves alone.
ComputeFrame ==
    UNCHANGED << ADC1_CR, ADC1_ISR, ADC1_CCR, ADC1_CHSELR, init_regs, GPIO_MNTR_EN,
                 env_vars, op, loop_count, getter_vars, n_calls, entry_ctx, conv_log,
                 median_log >>

\* The division of a compute step trapped: the program stops there, with
\* nothing stored, the converter enabled and the sources on.
DivisionTrap ==
    /\ DivU32Traps(adc_ctx.vrefint_12bits)
    /\ pc' = "trap"
    /\ UNCHANGED << adc_ctx, status, err_log, conv_locals, fc_base >>
    /\ ComputeFrame

\* Lines 282-283 and 151-156: _ADC1_compute_vmcu, then _ADC1_compute_tmcu
\* enters the filtered conversion of the temperature sensor.
ADC1_compute_vmcu ==
    /\ pc = "vmcu"
    /\ \/ /\ \E q \in compute_vmcu(adc_ctx.vrefint_12bits) :
                adc_ctx' = [adc_ctx EXCEPT !.data[ADC_DATA_INDEX_VMCU_MV] = q]
          /\ raw_12bits' = 0
          /\ FilteredConversionEnter(ADC_CHANNEL_TMCU, status)
          /\ ComputeFrame
       \/ DivisionTrap

\* Lines 157-162, 284-285 and 173-176: the temperature stored, then
\* _ADC1_compute_vusb enters the filtered conversion of the USB channel.
ADC1_compute_tmcu ==
    /\ pc = "tmcu"
    /\ adc_ctx' = [adc_ctx EXCEPT !.tmcu_degrees =
                      compute_tmcu(raw_12bits, adc_ctx.data[ADC_DATA_INDEX_VMCU_MV])]
    /\ raw_12bits' = 0
    /\ FilteredConversionEnter(ADC_CHANNEL_VUSB, status)
    /\ ComputeFrame

\* Lines 177-179, 286-287 and 190-193: the USB voltage stored, then
\* _ADC1_compute_vrs enters the filtered conversion of the sense channel.
ADC1_compute_vusb ==
    /\ pc = "vusb"
    /\ \/ /\ \E q \in compute_vusb(raw_12bits, adc_ctx.vrefint_12bits) :
                adc_ctx' = [adc_ctx EXCEPT !.data[ADC_DATA_INDEX_VUSB_MV] = q]
          /\ raw_12bits' = 0
          /\ FilteredConversionEnter(ADC_CHANNEL_VRS, status)
          /\ ComputeFrame
       \/ DivisionTrap

\* Lines 194-198 and 287: the sense voltage stored; status is the filtered
\* conversion's, and the function reaches its 'errors' label.
ADC1_compute_vrs ==
    /\ pc = "vrs"
    /\ \/ /\ \E q \in compute_vrs(raw_12bits, adc_ctx.vrefint_12bits) :
                adc_ctx' = [adc_ctx EXCEPT !.data[ADC_DATA_INDEX_VRS_MV] = q]
          /\ pc' = "errors"
          /\ UNCHANGED << status, err_log, conv_locals, fc_base >>
          /\ ComputeFrame
       \/ DivisionTrap

\* Lines 288-297, the 'errors' label: the internal sources off, the voltage
\* dividers off, the disable of the converter requested, status returned.
\* The locals of the conversion functions end with the call.
ADC1_perform_measurements_errors ==
    /\ pc = "errors"
    /\ ADC1_CCR' = ADC1_CCR \ {CCR_VREFEN, CCR_TSEN}
    /\ GPIO_MNTR_EN' = IF HW1_1 THEN 0 ELSE GPIO_MNTR_EN
    /\ ADC1_CR' = ADC1_CR \cup {CR_ADDIS}
    /\ pc' = "idle"
    /\ idx' = 0
    /\ adc_sample_buf' = [i \in 1..ADC_MEDIAN_FILTER_SIZE |-> 0]
    /\ adc_channel' = ADC_CHANNEL_LAST
    /\ raw_12bits' = 0
    /\ UNCHANGED << adc_ctx, ADC1_ISR, ADC1_CHSELR, init_regs, env_vars, op, status,
                    loop_count, getter_vars, n_calls, entry_ctx, conv_hist, err_log >>

(***************************************************************************)
(* ADC1_get_data (adc.c:305-320) and ADC1_get_tmcu (adc.c:326-337).        *)
(***************************************************************************)
\* Values of data_idx the callers pass, valid and not.
GetIndexes == 0..(ADC_DATA_INDEX_LAST + 1)
Pointers == {"NULL", "valid"}

\* The parameter checks of ADC1_get_data in the other order.
get_data_status_swapped(data_idx, ptr) ==
    IF ptr = "NULL" THEN ADC_ERROR_NULL_PARAMETER
    ELSE IF data_idx >= ADC_DATA_INDEX_LAST THEN ADC_ERROR_DATA_INDEX
    ELSE ADC_SUCCESS

\* The parameter checks of ADC1_get_data, in the code's order.
get_data_status(data_idx, ptr) ==
    IF data_idx >= ADC_DATA_INDEX_LAST THEN ADC_ERROR_DATA_INDEX
    ELSE IF ptr = "NULL" THEN ADC_ERROR_NULL_PARAMETER
    ELSE ADC_SUCCESS

ADC1_get_data ==
    /\ pc = "idle"
    /\ \E data_idx \in GetIndexes, ptr \in Pointers :
          /\ arg' = [data_idx |-> data_idx, ptr |-> ptr]
          /\ status' = get_data_status(data_idx, ptr)
          /\ out_data' = IF get_data_status(data_idx, ptr) = ADC_SUCCESS
                         THEN adc_ctx.data[data_idx] ELSE Unwritten
    /\ op' = "get_data"
    /\ out_tmcu' = Unwritten
    /\ UNCHANGED << adc_ctx, ADC1_CR, ADC1_ISR, ADC1_CCR, ADC1_CHSELR, init_regs,
                    GPIO_MNTR_EN, env_vars, pc, loop_count, conv_locals, n_calls,
                    entry_ctx, conv_hist, err_log >>

\* The parameter check of ADC1_get_tmcu.
get_tmcu_status(ptr) ==
    IF ptr = "NULL" THEN ADC_ERROR_NULL_PARAMETER ELSE ADC_SUCCESS

ADC1_get_tmcu ==
    /\ pc = "idle"
    /\ \E ptr \in Pointers :
          /\ arg' = [data_idx |-> 0, ptr |-> ptr]
          /\ status' = get_tmcu_status(ptr)
          /\ out_tmcu' = IF get_tmcu_status(ptr) = ADC_SUCCESS
                         THEN adc_ctx.tmcu_degrees ELSE Unwritten
    /\ op' = "get_tmcu"
    /\ out_data' = Unwritten
    /\ UNCHANGED << adc_ctx, ADC1_CR, ADC1_ISR, ADC1_CCR, ADC1_CHSELR, init_regs,
                    GPIO_MNTR_EN, env_vars, pc, loop_count, conv_locals, n_calls,
                    entry_ctx, conv_hist, err_log >>

Next ==
    \/ ADC1_init_enter
    \/ ADC1_init_delay
    \/ ADC1_init_cal_poll
    \/ ADC1_perform_measurements_enter
    \/ ADC1_perform_measurements_ready_poll
    \/ ADC1_perform_measurements_delay
    \/ ADC1_single_conversion_start
    \/ ADC1_single_conversion_poll
    \/ ADC1_filtered_conversion_median
    \/ ADC1_compute_vmcu
    \/ ADC1_compute_tmcu
    \/ ADC1_compute_vusb
    \/ ADC1_compute_vrs
    \/ ADC1_perform_measurements_errors
    \/ ADC1_get_data
    \/ ADC1_get_tmcu
    \/ HW_ADC_disable

Spec == Init /\ [][Next]_vars

(***************************************************************************)
(* The driver under a running processor: a call in progress takes its next *)
(* step (the program is single-threaded and nothing preempts it for ever). *)
(* The run is that of one board revision and one set of analog inputs.     *)
(***************************************************************************)
Step ==
    \/ ADC1_init_delay
    \/ ADC1_init_cal_poll
    \/ ADC1_perform_measurements_ready_poll
    \/ ADC1_perform_measurements_delay
    \/ ADC1_single_conversion_start
    \/ ADC1_single_conversion_poll
    \/ ADC1_filtered_conversion_median
    \/ ADC1_compute_vmcu
    \/ ADC1_compute_tmcu
    \/ ADC1_compute_vusb
    \/ ADC1_compute_vrs
    \/ ADC1_perform_measurements_errors

InitLive ==
    /\ Init
    /\ HW1_1
    /\ hw_level[ADC_CHANNEL_VREFINT] = 1500
    /\ hw_level[ADC_CHANNEL_TMCU] = 650

SpecLive == InitLive /\ [][Next]_vars /\ WF_vars(Step)

\* The same scheduling on every board of the model, the one whose bandgap
\* channel reads zero included.
InitLiveAnyBoard == Init /\ HW1_1

SpecLiveAnyBoard == InitLiveAnyBoard /\ [][Next]_vars /\ WF_vars(Step)

(***************************************************************************)
(* The conversions over the whole range of the converter: one              *)
(* ADC1_perform_measurements call on hardware that answers at once and a   *)
(* delay that succeeds, followed by the getters, for analog inputs and     *)
(* factory words drawn from wide sets.                                     *)
(***************************************************************************)
\* Bandgap readings: every code of the converter.
VrefintCodes == 0..ADC_FULL_SCALE_12BITS
\* Bandgap and temperature readings crossed with each other.
VrefintSample == {0, 1, 2, 1000, 1499, 1500, 1501, 1671, 3000, 4095}
TmcuSample == {0, 1, 599, 600, 601, 650, 683, 697, 698, 700, 1000, 4095}
FactoryWordsCalc ==
    {[vrefint_cal |-> 1500, ts_cal1 |-> 600, ts_cal2 |-> 700],
     [vrefint_cal |-> 1671, ts_cal1 |-> 680, ts_cal2 |-> 912]}

InitCalc ==
    /\ adc_ctx = [vrefint_12bits |-> 0, data |-> [i \in DataIndexes |-> 0],
                  tmcu_degrees |-> 0]
    /\ ADC1_CR = {} /\ ADC1_ISR = {} /\ ADC1_CCR = {} /\ ADC1_CHSELR = {}
    /\ ADC1_CFGR2 = {} /\ ADC1_SMPR = {} /\ RCC_APB2ENR = {}
    /\ gpio_mode = [p \in Pins |-> "reset"]
    /\ GPIO_MNTR_EN = 0
    /\ HW1_1 = TRUE
    /\ \E f \in FactoryWordsCalc :
          /\ VREFINT_CAL = f.vrefint_cal /\ TS_CAL1 = f.ts_cal1 /\ TS_CAL2 = f.ts_cal2
          /\ \/ /\ f.vrefint_cal = 1500
                /\ \E v \in VrefintCodes :
                      hw_level = [c \in Channels |->
                                     IF c = ADC_CHANNEL_VREFINT THEN v ELSE 650]
             \/ \E v \in VrefintSample, t \in TmcuSample :
                   hw_level = [c \in Channels |->
                                  CASE c = ADC_CHANNEL_VREFINT -> v
                                    [] c = ADC_CHANNEL_TMCU -> t
                                    [] c = ADC_CHANNEL_VUSB -> 4095
                                    [] OTHER -> 650]
    /\ pc = "idle" /\ op = "none" /\ status = ADC_SUCCESS
    /\ loop_count = 0 /\ idx = 0
    /\ adc_sample_buf = [i \in 1..ADC_MEDIAN_FILTER_SIZE |-> 0]
    /\ adc_channel = ADC_CHANNEL_LAST /\ raw_12bits = 0
    /\ arg = [data_idx |-> 0, ptr |-> "none"]
    /\ out_data = Unwritten /\ out_tmcu = Unwritten
    /\ n_calls = 0
    /\ entry_ctx = adc_ctx
    /\ conv_log = << >> /\ fc_base = 0 /\ median_log = << >> /\ err_log = << >>
    /\ NvmReset
    /\ ExtiReset
    /\ RccReset

\* The hardware answered the poll at its first read and nothing failed.
Quiet == loop_count = 0 /\ err_log = << >>

NextCalc ==
    \/ ADC1_perform_measurements_enter /\ n_calls = 0
    \/ ADC1_perform_measurements_ready_poll /\ Quiet'
    \/ ADC1_perform_measurements_delay /\ Quiet'
    \/ ADC1_single_conversion_start
    \/ ADC1_single_conversion_poll /\ Quiet'
    \/ ADC1_filtered_conversion_median
    \/ ADC1_compute_vmcu
    \/ ADC1_compute_tmcu
    \/ ADC1_compute_vusb
    \/ ADC1_compute_vrs
    \/ ADC1_perform_measurements_errors
    \/ ADC1_get_tmcu /\ n_calls = 1

SpecCalc == InitCalc /\ [][NextCalc]_vars

(***************************************************************************)
(* Properties of the ADC driver.                                           *)
(***************************************************************************)
Returned(name) == pc = "idle" /\ op = name

\* C1: ADC1_perform_measurements returns only after its teardown, on every
\* path: whenever no call is in progress the bandgap and temperature sources
\* (CCR bits 22-23) are off, the analog-enable output is low, and the
\* converter is either disabled or has its disable (ADDIS) requested.
C1_TeardownOnEveryReturn ==
    pc = "idle" =>
        /\ ADC1_CCR \cap {CCR_VREFEN, CCR_TSEN} = {}
        /\ GPIO_MNTR_EN = 0
        /\ CR_ADDIS \in ADC1_CR \/ ADC1_CR \cap {CR_ADEN, CR_ADSTART} = {}

\* C1 witness: a call that enabled the sources and the dividers, converted the
\* bandgap channel and then timed out on a later channel has returned.
C1_Witness ==
    /\ Returned("perform") /\ HW1_1
    /\ status = ADC_ERROR_TIMEOUT
    /\ Len(conv_log) > ADC_MEDIAN_FILTER_SIZE
    /\ CR_ADDIS \in ADC1_CR

\* C2: ADC1_perform_measurements returns the first failure unchanged: once a
\* step has failed nothing but the teardown runs (no conversion, no second
\* failure), the status is that failure's, and the call returns success only
\* after all four channels were converted and computed.
C2_FirstErrorReturned ==
    /\ (op = "perform" /\ err_log # << >>) =>
          /\ pc \in {"errors", "idle"}
          /\ Len(err_log) = 1
          /\ status = err_log[1]
    /\ (Returned("perform") /\ err_log = << >>) =>
          /\ status = ADC_SUCCESS
          /\ Len(conv_log) = 4 * ADC_MEDIAN_FILTER_SIZE
          /\ Len(median_log) = 4

\* C2 witness: the bandgap acquisition timed out and the call has returned
\* the timeout.
C2_Witness ==
    /\ Returned("perform")
    /\ median_log = << >> /\ Len(conv_log) > 0
    /\ status = ADC_ERROR_TIMEOUT

\* C3: whenever a conversion divides by vrefint_12bits (the supply voltage,
\* the USB voltage, the sense voltage), vrefint_12bits is not zero.
C3_DivisorNonZero ==
    pc \in {"vmcu", "vusb", "vrs"} => adc_ctx.vrefint_12bits # 0

\* C4: from its first step to its return, whatever it returns, ADC1_init
\* leaves the context reset: vrefint_12bits 0, the supply-voltage slot 3300,
\* every other slot 0, the temperature 0.
C4_InitResetsContext ==
    op = "init" =>
        /\ adc_ctx.vrefint_12bits = 0
        /\ adc_ctx.tmcu_degrees = 0
        /\ \A i \in DataIndexes :
              adc_ctx.data[i] = IF i = ADC_DATA_INDEX_VMCU_MV THEN 3300 ELSE 0

\* C4 witness: ADC1_init has returned a calibration timeout after a
\* measurement had filled the context.
C4_Witness ==
    /\ Returned("init") /\ status = ADC_ERROR_CALIBRATION
    /\ entry_ctx.vrefint_12bits # 0
    /\ entry_ctx.tmcu_degrees # 0
    /\ entry_ctx.data[ADC_DATA_INDEX_VUSB_MV] # 0

\* C5: ADC1_get_data with data_idx >= ADC_DATA_INDEX_LAST returns
\* ADC_ERROR_DATA_INDEX and leaves the output unwritten; with a smaller index
\* and an output it returns success and the slot's stored value.
C5_GetDataIndexChecked ==
    Returned("get_data") =>
        /\ arg.data_idx >= ADC_DATA_INDEX_LAST =>
              status = ADC_ERROR_DATA_INDEX /\ out_data = Unwritten
        /\ (arg.data_idx < ADC_DATA_INDEX_LAST /\ arg.ptr = "valid") =>
              status = ADC_SUCCESS /\ out_data = adc_ctx.data[arg.data_idx]

\* C5 witness: a call with the index ADC_DATA_INDEX_LAST and an output was
\* refused.
C5_Witness ==
    /\ Returned("get_data")
    /\ arg.data_idx = ADC_DATA_INDEX_LAST /\ arg.ptr = "valid"
    /\ status = ADC_ERROR_DATA_INDEX

\* The conversions started since the filtered conversion in progress was
\* entered.
ConversionsOfFiltered == SubSeq(conv_log, fc_base + 1, Len(conv_log))

\* C6: when the median filter is about to be invoked, exactly 9 conversions
\* of the channel were started by this filtered conversion; when its k-th
\* conversion timed out, exactly k were started, the filter was not invoked
\* for the channel and the result slot is as it was.
C6_NineConversionsThenFilter ==
    /\ pc = "median" =>
          /\ adc_channel \in Channels
          /\ ConversionsOfFiltered = [i \in 1..9 |-> adc_channel]
    /\ (pc = "errors" /\ status = ADC_ERROR_TIMEOUT /\ conv_log # << >>) =>
          /\ Len(ConversionsOfFiltered) = idx + 1
          /\ \A i \in 1..Len(ConversionsOfFiltered) :
                ConversionsOfFiltered[i] = adc_channel
          /\ \A i \in 1..Len(median_log) : median_log[i].channel # adc_channel
          /\ IF adc_channel = ADC_CHANNEL_VREFINT
             THEN adc_ctx.vrefint_12bits = entry_ctx.vrefint_12bits
             ELSE raw_12bits = 0

\* C6 witness: the filter is about to run on the nine samples of the sense
\* channel, the last of the four.
C6_Witness ==
    /\ pc = "median" /\ adc_channel = ADC_CHANNEL_VRS
    /\ Len(conv_log) = 4 * ADC_MEDIAN_FILTER_SIZE

\* C7: every ADC1_perform_measurements call terminates: no poll loop runs
\* more than ADC_TIMEOUT_COUNT+1 iterations, a call starts at most 36 single
\* conversions, and a call in progress always reaches its return, whatever
\* the channels read.
C7_PerformTerminates ==
    /\ [](op = "perform" =>
            /\ loop_count <= ADC_TIMEOUT_COUNT + 1
            /\ Len(conv_log) <= 4 * ADC_MEDIAN_FILTER_SIZE)
    /\ ((op = "perform" /\ pc # "idle") ~> pc = "idle")

\* The wrapped failures of the delay.
LptimErrors == {ADC_ERROR_BASE_LPTIM + e : e \in LPTIM_statuses \ {LPTIM_SUCCESS}}

\* C10: ADC1_init returns ADC_ERROR_CALIBRATION exactly when the calibration
\* poll ran ADC_TIMEOUT_COUNT+1 iterations, each finding ADCAL set and the
\* end-of-calibration flag clear; when the delay succeeded and the poll ended
\* within the bound it returns ADC_SUCCESS; and every call of ADC1_init
\* reaches its return.
C10_CalibrationTimeout ==
    /\ [](Returned("init") =>
            /\ status = ADC_ERROR_CALIBRATION <=> loop_count = ADC_TIMEOUT_COUNT + 1
            /\ status = ADC_ERROR_CALIBRATION =>
                  CR_ADCAL \in ADC1_CR /\ ISR_EOCAL \notin ADC1_ISR
            /\ (status \notin LptimErrors /\ loop_count <= ADC_TIMEOUT_COUNT) =>
                  status = ADC_SUCCESS
            /\ status \in LptimErrors => loop_count = 0)
    /\ [](op = "init" => loop_count <= ADC_TIMEOUT_COUNT + 1)
    /\ ((op = "init" /\ pc # "idle") ~> pc = "idle")

\* C10 witness: the calibration never completed and ADC1_init has returned
\* the calibration timeout.
C10_Witness ==
    /\ Returned("init") /\ status = ADC_ERROR_CALIBRATION
    /\ loop_count = ADC_TIMEOUT_COUNT + 1
    /\ CR_ADCAL \in ADC1_CR

\* The last ADC1_perform_measurements went through its four channels and
\* no step failed.
Measured == Len(median_log) = 4 /\ err_log = << >>

\* The filtered reading of the temperature channel and the stored supply.
FilteredTmcu == median_log[2].value

SupplyMv == adc_ctx.data[ADC_DATA_INDEX_VMCU_MV]

\* raw * supply_mV over the integers, as the formula of the claim takes it,
\* written in base 2^16 because the checker's integers end at 2^31 - 1: the
\* product is ExactProductHigh * 2^16 + ProductLow, with the supply read as
\* an unsigned word.
ExactProductHigh ==
    LET bh == (SupplyMv \div Half) % Half
        bl == SupplyMv % Half
    IN  (FilteredTmcu * bh) + ((FilteredTmcu * bl) \div Half)

\* Line 159: the uint32_t product (int32_t) raw * supply_mV, which keeps the
\* low 32 bits; ProductHigh is its upper half (product >> 16), ProductLow
\* its lower half.
ProductHigh == ExactProductHigh % Half

ProductLow == (FilteredTmcu * (SupplyMv % Half)) % Half

\* raw * supply_mV is below 2^32: the uint32_t product is the product.
ProductFitsWord == ExactProductHigh < Half

\* cal1_temp + calib_mV * (cal2_temp - cal1_temp) / (cal2_code - cal1_code)
\* with calib_mV = product / calib_supply_mV - cal1_code, over the integers,
\* each division truncating toward zero, for the product
\* high * 2^16 + ProductLow.
TemperatureFormula(high) ==
    LET r == high % TS_VCC_CALIB_MV
        quotient == (high \div TS_VCC_CALIB_MV) * Half
                        + ((r * Half + ProductLow) \div TS_VCC_CALIB_MV)
        calib_mV == quotient - TS_CAL1
        num == calib_mV * (TS_CAL2_TEMP - TS_CAL1_TEMP)
        den == TS_CAL2 - TS_CAL1
        quot == IF num >= 0 THEN num \div den ELSE 0 - ((0 - num) \div den)
    IN  TS_CAL1_TEMP + quot

\* The largest ExactProductHigh for which the checker's integers hold every
\* intermediate value of the formula: products below 2^35, which every
\* supply derived from a non-zero bandgap reading stays under.
FormulaHighMax == 8 * Half - 1

\* C8 as stated: after a successful measurement ADC1_get_tmcu returns the
\* value of the formula, whatever the reading and the supply, including
\* values of the formula outside -128..127.  (Evaluated wherever the
\* formula's value can be written down, that is for products below 2^35.)
C8_TemperatureExact ==
    (Returned("get_tmcu") /\ arg.ptr = "valid" /\ Measured
       /\ ExactProductHigh <= FormulaHighMax) =>
        out_tmcu = TemperatureFormula(ExactProductHigh)

\* C8: after a successful measurement, for every filtered reading and every
\* stored supply, ADC1_get_tmcu returns success and the value of the formula
\* taken with raw * supply_mV reduced modulo 2^32, reduced modulo 256 into
\* -128..127.  It is the value of the formula as written whenever
\* raw * supply_mV is below 2^32 and that value lies in -128..127 (also with
\* a negative calib_mV), and a wrapped value otherwise.
C8_TemperatureModulo ==
    (Returned("get_tmcu") /\ arg.ptr = "valid" /\ Measured) =>
        LET wrapped == TemperatureFormula(ProductHigh) IN
        /\ status = ADC_SUCCESS
        /\ out_tmcu \in -128..127
        /\ (out_tmcu - wrapped) % 256 = 0
        /\ ProductFitsWord =>
              /\ (out_tmcu - TemperatureFormula(ExactProductHigh)) % 256 = 0
              /\ TemperatureFormula(ExactProductHigh) \in -128..127 =>
                    out_tmcu = TemperatureFormula(ExactProductHigh)

\* C8 witness: ADC1_get_tmcu returned 80 for cal1_code 600, cal2_code 700,
\* raw 650 and a derived supply of 3000 mV.
C8_Witness ==
    /\ Returned("get_tmcu") /\ arg.ptr = "valid" /\ Measured
    /\ TS_CAL1 = 600 /\ TS_CAL2 = 700
    /\ FilteredTmcu = 650 /\ SupplyMv = 3000
    /\ out_tmcu = 80

\* The uint32_t product at work: bandgap reading 1, supply 4500000 mV,
\* raw 1000.  The product 4500000000 is 205032704 modulo 2^32; the formula
\* as written gives 1499430 (38 modulo 256), ADC1_get_tmcu returns -66.
ProductWrapped ==
    /\ Returned("get_tmcu") /\ arg.ptr = "valid" /\ Measured
    /\ TS_CAL1 = 600 /\ TS_CAL2 = 700
    /\ FilteredTmcu = 1000 /\ SupplyMv = 4500000
    /\ ~ProductFitsWord
    /\ ProductHigh * Half + ProductLow = 205032704
    /\ TemperatureFormula(ExactProductHigh) = 1499430
    /\ out_tmcu = -66

\* After a successful measurement ADC1_get_tmcu returns the formula as
\* written reduced modulo 256, the product taken over the integers: refuted
\* by ProductWrapped.
TemperatureModuloExactProduct ==
    (Returned("get_tmcu") /\ arg.ptr = "valid" /\ Measured
       /\ ExactProductHigh <= FormulaHighMax) =>
        (out_tmcu - TemperatureFormula(ExactProductHigh)) % 256 = 0

\* C9: after a measurement whose bandgap acquisition gave a non-zero
\* vrefint_12bits, the supply-voltage slot is
\* (VREFINT_CAL * VREFINT_VCC_CALIB_MV) / vrefint_12bits, truncated; the next
\* higher reading gives no higher supply, and twice the reading gives half
\* the supply within 1 mV.
C9_SupplyFromBandgap ==
    (Returned("perform") /\ median_log # << >> /\ adc_ctx.vrefint_12bits # 0) =>
        LET v == adc_ctx.vrefint_12bits IN
        /\ SupplyMv = (VREFINT_CAL * VREFINT_VCC_CALIB_MV) \div v
        /\ v + 1 <= ADC_FULL_SCALE_12BITS =>
              \A q \in compute_vmcu(v + 1) : q <= SupplyMv
        /\ 2 * v <= ADC_FULL_SCALE_12BITS =>
              \A q \in compute_vmcu(2 * v) : Abs(SupplyMv - 2 * q) <= 1

\* C9 witness: a measurement with the bandgap reading 4095 has returned and
\* the slot holds 4500000 / 4095 truncated.
C9_Witness ==
    /\ Returned("perform") /\ status = ADC_SUCCESS
    /\ VREFINT_CAL = 1500 /\ adc_ctx.vrefint_12bits = 4095
    /\ SupplyMv = 1098

\* The failures the ADC driver raises itself.
AdcOwnErrors ==
    {ADC_ERROR_NULL_PARAMETER, ADC_ERROR_CHANNEL, ADC_ERROR_TIMEOUT,
     ADC_ERROR_CALIBRATION, ADC_ERROR_DATA_INDEX}

\* The delay of the call in progress (or of the last call) failed.
DelayFailed == err_log # << >> /\ err_log[1] \in LptimErrors

\* C11: when the delay fails, ADC1_init and ADC1_perform_measurements return
\* ADC_ERROR_BASE_LPTIM plus the delay's status, which is none of the
\* driver's own errors; the step of ADC1_init that meets the failure writes
\* neither the clock and sampling configuration nor ADCAL; in
\* ADC1_perform_measurements no conversion is started and the call returns
\* through the teardown.
C11_DelayErrorWrapped ==
    /\ []((op \in {"init", "perform"} /\ DelayFailed) =>
            /\ status = err_log[1]
            /\ status \notin AdcOwnErrors \cup {ADC_SUCCESS}
            /\ conv_log = << >>
            /\ pc \in {"errors", "idle"}
            /\ Returned("perform") =>
                  /\ ADC1_CCR \cap {CCR_VREFEN, CCR_TSEN} = {}
                  /\ GPIO_MNTR_EN = 0
                  /\ CR_ADDIS \in ADC1_CR \/ ADC1_CR \cap {CR_ADEN, CR_ADSTART} = {})
    /\ [][(pc = "init_delay" /\ DelayFailed') =>
            /\ pc' = "idle"
            /\ ADC1_CFGR2' = ADC1_CFGR2 /\ ADC1_SMPR' = ADC1_SMPR
            /\ ADC1_CR' = ADC1_CR]_vars

\* C11 witness: ADC1_perform_measurements has returned the wrapped
\* LPTIM_ERROR_WRITE_ARR of the settling delay, the dividers having been on.
C11_Witness ==
    /\ Returned("perform") /\ HW1_1
    /\ status = ADC_ERROR_BASE_LPTIM + LPTIM_ERROR_WRITE_ARR
    /\ CR_ADDIS \in ADC1_CR

\* The k-th acquisition of the call went through its filter and the compute
\* step at 'label' that stores its result has run to its end: the program
\* did not stop at the division of that step.
StepDone(k, label) ==
    /\ Len(median_log) >= k
    /\ pc # label
    /\ ~(pc = "trap" /\ Len(median_log) = k)

\* C12: ADC1_get_data and ADC1_get_tmcu never change adc_ctx, and during and
\* after an ADC1_perform_measurements call every field whose step has not
\* completed holds the value it had when the call was entered.
C12_ContextFrame ==
    /\ [](op = "perform" =>
            /\ Len(median_log) < 1 =>
                  adc_ctx.vrefint_12bits = entry_ctx.vrefint_12bits
            /\ ~StepDone(1, "vmcu") =>
                  adc_ctx.data[ADC_DATA_INDEX_VMCU_MV] = entry_ctx.data[ADC_DATA_INDEX_VMCU_MV]
            /\ ~StepDone(2, "tmcu") =>
                  adc_ctx.tmcu_degrees = entry_ctx.tmcu_degrees
            /\ ~StepDone(3, "vusb") =>
                  adc_ctx.data[ADC_DATA_INDEX_VUSB_MV] = entry_ctx.data[ADC_DATA_INDEX_VUSB_MV]
            /\ ~StepDone(4, "vrs") =>
                  adc_ctx.data[ADC_DATA_INDEX_VRS_MV] = entry_ctx.data[ADC_DATA_INDEX_VRS_MV])
    /\ [][op' \in {"get_data", "get_tmcu"} => adc_ctx' = adc_ctx]_vars

\* C12 witness: a call whose bandgap conversion timed out has returned with
\* the context an earlier measurement had filled.
C12_Witness ==
    /\ Returned("perform") /\ status = ADC_ERROR_TIMEOUT
    /\ median_log = << >> /\ conv_log # << >>
    /\ adc_ctx = entry_ctx
    /\ adc_ctx.vrefint_12bits # 0
    /\ adc_ctx.data[ADC_DATA_INDEX_VRS_MV] # 0

\* The channels in the order ADC1_perform_measurements acquires them.
ChannelOrder ==
    << ADC_CHANNEL_VREFINT, ADC_CHANNEL_TMCU, ADC_CHANNEL_VUSB, ADC_CHANNEL_VRS >>

\* C13: in an ADC1_perform_measurements call no conversion starts during the
\* ready poll or the settling delay; the delay is reached only with ADRDY
\* read as set and the sources enabled; every ADSTART is written with the
\* sources enabled and no failure so far; the conversions are nine of the
\* bandgap channel, then nine of the temperature sensor, of the USB input
\* and of the sense input; the bandgap channel is filtered once and its
\* stored value is the divisor of the supply, USB and sense conversions.
C13_StepOrder ==
    /\ [](op = "perform" =>
            /\ pc = "ready_poll" =>
                  conv_log = << >> /\ ADC1_CCR \cap {CCR_VREFEN, CCR_TSEN} = {}
            /\ pc = "settle_delay" =>
                  /\ conv_log = << >> /\ ISR_ADRDY \in ADC1_ISR
                  /\ {CCR_VREFEN, CCR_TSEN} \subseteq ADC1_CCR
            /\ conv_log # << >> => ~DelayFailed
            /\ Len(conv_log) <= 4 * ADC_MEDIAN_FILTER_SIZE
            /\ \A i \in 1..Len(conv_log) :
                  conv_log[i] = ChannelOrder[((i - 1) \div ADC_MEDIAN_FILTER_SIZE) + 1]
            /\ \A i \in 1..Len(median_log) : median_log[i].channel = ChannelOrder[i]
            /\ Len(median_log) >= 1 => adc_ctx.vrefint_12bits = median_log[1].value
            /\ StepDone(1, "vmcu") =>
                  adc_ctx.data[ADC_DATA_INDEX_VMCU_MV] \in
                      DivU32(VREFINT_CAL * VREFINT_VCC_CALIB_MV, median_log[1].value)
            /\ StepDone(3, "vusb") =>
                  adc_ctx.data[ADC_DATA_INDEX_VUSB_MV] \in
                      DivU32(ADC_VREFINT_VOLTAGE_MV * median_log[3].value
                                 * ADC_VOLTAGE_DIVIDER_RATIO_VUSB, median_log[1].value)
            /\ StepDone(4, "vrs") =>
                  adc_ctx.data[ADC_DATA_INDEX_VRS_MV] \in
                      DivU32(ADC_VREFINT_VOLTAGE_MV * median_log[4].value
                                 * ADC_VOLTAGE_DIVIDER_RATIO_VRS, median_log[1].value))
    /\ [][conv_log' # conv_log /\ conv_log' # << >> =>
            /\ pc = "sc_start" /\ op = "perform"
            /\ {CCR_VREFEN, CCR_TSEN} \subseteq ADC1_CCR
            /\ CR_ADEN \in ADC1_CR
            /\ CR_ADSTART \in ADC1_CR'
            /\ err_log = << >>]_vars

\* C13 witness: a call has returned success after its 36 conversions with
\* a non-zero bandgap reading and a non-zero USB voltage.
C13_Witness ==
    /\ Returned("perform") /\ status = ADC_SUCCESS
    /\ Len(conv_log) = 4 * ADC_MEDIAN_FILTER_SIZE /\ Len(median_log) = 4
    /\ adc_ctx.vrefint_12bits # 0
    /\ adc_ctx.data[ADC_DATA_INDEX_VUSB_MV] # 0

(***************************************************************************)
(* The NVM driver (nvm.c).  A call runs from its entry to each read of the *)
(* busy flag in one step; the flash interface is the environment: a write  *)
(* to the EEPROM raises BSY, the interface lowers it when the operation    *)
(* ends, which no poll may live to see.                                    *)
(***************************************************************************)
\* Parameter check of NVM_read_byte and NVM_write_byte with the bound
\* included in the range.
AddressValid_inclusive(address_offset) == address_offset <= EEPROM_SIZE_BYTES

\* Parameter check of NVM_read_byte and NVM_write_byte (nvm.c:90, 119).
AddressValid(address_offset) == address_offset < EEPROM_SIZE_BYTES

\* A store that reaches every byte of the EEPROM.
EepromStore_all(mem, address_offset, data) == [o \in DOMAIN mem |-> data]

\* The EEPROM after the byte store of nvm.c:127.
EepromStore(mem, address_offset, data) == [mem EXCEPT ![address_offset] = data]

\* FLASH->SR bit 0 as a poll reads it: a running operation may have ended.
BusyRead(ended) == FLASH_SR_BSY /\ ~ended

\* 'loop_count++; if (loop_count > NVM_TIMEOUT_COUNT)' of the three loops.
NvmTimedOut(count) == count > NVM_TIMEOUT_COUNT

\* The interface takes the two keys in order and releases PELOCK.
PekeyrUnlocks(keys) == keys = << FLASH_PEKEY1, FLASH_PEKEY2 >>

NvmEnterCall(name, a) ==
    /\ nvm_pc = "idle"
    /\ nvm_calls < MaxNvmCalls
    /\ nvm_calls' = nvm_calls + 1
    /\ nvm_op' = name
    /\ nvm_arg' = a
    /\ nvm_entry' = [eeprom |-> eeprom, pecr |-> FLASH_PECR]
    /\ nvm_keys' = << >> /\ nvm_access' = << >>
    /\ nvm_loop_count' = 0

\* NVM_init (nvm.c:76-79).
NVM_init ==
    /\ NvmEnterCall("init", [address_offset |-> 0, data |-> 0, ptr |-> "none"])
    /\ RCC_AHBENR' = RCC_AHBENR \cup {AHBENR_MIFEN}
    /\ UNCHANGED << FLASH_PECR, FLASH_SR_BSY, eeprom, nvm_pc, nvm_status, nvm_data,
                    nvm_written, adc_vars, exti_vars, rcc_vars >>

\* NVM_read_byte up to the call of _NVM_unlock (nvm.c:86-99).
NVM_read_byte_enter ==
    \E address_offset \in NvmAddresses, ptr \in {"NULL", "data"} :
       /\ NvmEnterCall("read", [address_offset |-> address_offset, data |-> 0,
                                ptr |-> ptr])
       /\ IF ~AddressValid(address_offset)
             THEN nvm_status' = NVM_ERROR_ADDRESS /\ nvm_pc' = "idle"
             ELSE IF ptr = "NULL"
                     THEN nvm_status' = NVM_ERROR_NULL_PARAMETER /\ nvm_pc' = "idle"
                     ELSE nvm_status' = NVM_SUCCESS /\ nvm_pc' = "unlock"
       /\ nvm_data' = Unwritten
       /\ UNCHANGED << FLASH_PECR, FLASH_SR_BSY, eeprom, RCC_AHBENR, nvm_written,
                       adc_vars, exti_vars, rcc_vars >>

\* NVM_write_byte up to the call of _NVM_unlock (nvm.c:114-124).
NVM_write_byte_enter ==
    \E address_offset \in NvmAddresses, data \in NvmBytes :
       /\ NvmEnterCall("write", [address_offset |-> address_offset, data |-> data,
                                 ptr |-> "none"])
       /\ IF ~AddressValid(address_offset)
             THEN nvm_status' = NVM_ERROR_ADDRESS /\ nvm_pc' = "idle"
             ELSE nvm_status' = NVM_SUCCESS /\ nvm_pc' = "unlock"
       /\ UNCHANGED << FLASH_PECR, FLASH_SR_BSY, eeprom, RCC_AHBENR, nvm_data,
                       nvm_written, adc_vars, exti_vars, rcc_vars >>

\* One read of BSY in _NVM_unlock (nvm.c:24-45) and, once it reads clear,
\* the unlock sequence and the caller's access to the EEPROM: the load of
\* nvm.c:102 or the store of nvm.c:127, which starts a write operation.
NVM_unlock_poll ==
    /\ nvm_pc = "unlock"
    /\ \E ended \in BOOLEAN :
          LET busy == BusyRead(ended)
              keys == IF PECR_PELOCK \in FLASH_PECR
                         THEN << FLASH_PEKEY1, FLASH_PEKEY2 >> ELSE << >>
              pecr == IF PekeyrUnlocks(keys)
                         THEN FLASH_PECR \ {PECR_PELOCK} ELSE FLASH_PECR
              a == nvm_arg.address_offset
          IN  IF busy
                 THEN /\ nvm_loop_count' = nvm_loop_count + 1
                      /\ IF NvmTimedOut(nvm_loop_count + 1)
                            THEN nvm_status' = NVM_ERROR_UNLOCK /\ nvm_pc' = "idle"
                            ELSE UNCHANGED << nvm_status, nvm_pc >>
                      /\ FLASH_SR_BSY' = busy
                      /\ UNCHANGED << FLASH_PECR, eeprom, nvm_data, nvm_keys,
                                      nvm_access, nvm_written >>
                 ELSE /\ nvm_keys' = nvm_keys \o keys
                      /\ FLASH_PECR' = pecr
                      /\ nvm_loop_count' = 0
                      /\ nvm_status' = NVM_SUCCESS
                      /\ IF nvm_op = "read"
                            THEN /\ nvm_data' = eeprom[a]
                                 /\ nvm_access' = Append(nvm_access,
                                                     [kind |-> "load", address_offset |-> a])
                                 /\ nvm_pc' = "lock"
                                 /\ FLASH_SR_BSY' = busy
                                 /\ UNCHANGED << eeprom, nvm_written >>
                            ELSE /\ eeprom' = IF PECR_PELOCK \in pecr
                                                 THEN eeprom
                                                 ELSE EepromStore(eeprom, a, nvm_arg.data)
                                 /\ nvm_access' = Append(nvm_access,
                                                     [kind |-> "store", address_offset |-> a])
                                 /\ FLASH_SR_BSY' = TRUE
                                 /\ nvm_written' = NothingWritten
                                 /\ nvm_pc' = "write_wait"
                                 /\ UNCHANGED nvm_data
    /\ UNCHANGED << RCC_AHBENR, nvm_op, nvm_arg, nvm_calls, nvm_entry, adc_vars, exti_vars, rcc_vars >>

\* One read of BSY in the loop of NVM_write_byte (nvm.c:129-136); once it
\* reads clear the call goes on to _NVM_lock.
NVM_write_byte_wait ==
    /\ nvm_pc = "write_wait"
    /\ \E ended \in BOOLEAN :
          LET busy == BusyRead(ended)
          IN  /\ FLASH_SR_BSY' = busy
              /\ IF busy
                    THEN /\ nvm_loop_count' = nvm_loop_count + 1
                         /\ IF NvmTimedOut(nvm_loop_count + 1)
                               THEN nvm_status' = NVM_ERROR_WRITE /\ nvm_pc' = "idle"
                               ELSE UNCHANGED << nvm_status, nvm_pc >>
                    ELSE /\ nvm_loop_count' = 0
                         /\ nvm_pc' = "lock"
                         /\ UNCHANGED nvm_status
    /\ UNCHANGED << FLASH_PECR, eeprom, RCC_AHBENR, nvm_op, nvm_arg, nvm_data,
                    nvm_calls, nvm_entry, nvm_keys, nvm_access, nvm_written,
                    adc_vars, exti_vars, rcc_vars >>

\* One read of BSY in _NVM_lock (nvm.c:51-68); once it reads clear PELOCK
\* is set and the call returns the status of _NVM_lock.
NVM_lock_poll ==
    /\ nvm_pc = "lock"
    /\ \E ended \in BOOLEAN :
          LET busy == BusyRead(ended)
          IN  /\ FLASH_SR_BSY' = busy
              /\ IF busy
                    THEN /\ nvm_loop_count' = nvm_loop_count + 1
                         /\ IF NvmTimedOut(nvm_loop_count + 1)
                               THEN nvm_status' = NVM_ERROR_LOCK /\ nvm_pc' = "idle"
                               ELSE UNCHANGED << nvm_status, nvm_pc >>
                         /\ UNCHANGED << FLASH_PECR, nvm_written >>
                    ELSE /\ FLASH_PECR' = FLASH_PECR \cup {PECR_PELOCK}
                         /\ nvm_status' = NVM_SUCCESS
                         /\ nvm_pc' = "idle"
                         /\ nvm_written' =
                               IF nvm_op = "write"
                                  THEN [valid |-> TRUE,
                                        address_offset |-> nvm_arg.address_offset,
                                        data |-> nvm_arg.data]
                                  ELSE nvm_written
                         /\ UNCHANGED nvm_loop_count
    /\ UNCHANGED << eeprom, RCC_AHBENR, nvm_op, nvm_arg, nvm_data, nvm_calls,
                    nvm_entry, nvm_keys, nvm_access, adc_vars, exti_vars, rcc_vars >>

NextNvm ==
    \/ NVM_init
    \/ NVM_read_byte_enter
    \/ NVM_write_byte_enter
    \/ NVM_unlock_poll
    \/ NVM_write_byte_wait
    \/ NVM_lock_poll

\* The NVM driver alone, beside an ADC driver that is never called.
SpecNvm == InitLive /\ [][NextNvm]_vars

NvmReturned(name) == nvm_pc = "idle" /\ nvm_op = name

\* The call got past _NVM_unlock: it made its access to the EEPROM.
PastUnlock == nvm_access # << >>

\* C14: every NVM_read_byte or NVM_write_byte call that got past the unlock
\* step has returned with PELOCK set, whatever status it returns.
C14_LockedOnReturn ==
    (nvm_pc = "idle" /\ nvm_op \in {"read", "write"} /\ PastUnlock)
        => PECR_PELOCK \in FLASH_PECR

\* C18: a NVM_write_byte(a, d) that returns NVM_SUCCESS left d at offset a
\* and every other byte as it was; a NVM_read_byte(a) after it, with no
\* store to the EEPROM in between, returns NVM_SUCCESS and yields d; no
\* read changes any byte.
C18_WriteReadRoundTrip ==
    /\ (NvmReturned("write") /\ nvm_status = NVM_SUCCESS) =>
          /\ nvm_arg.address_offset < EEPROM_SIZE_BYTES
          /\ eeprom[nvm_arg.address_offset] = nvm_arg.data
          /\ \A o \in EepromOffsets \ {nvm_arg.address_offset} :
                eeprom[o] = nvm_entry.eeprom[o]
    /\ (NvmReturned("read") /\ nvm_written.valid /\ nvm_arg.ptr # "NULL"
          /\ nvm_arg.address_offset = nvm_written.address_offset) =>
          /\ nvm_status = NVM_SUCCESS
          /\ nvm_data = nvm_written.data
    /\ nvm_op = "read" => eeprom = nvm_entry.eeprom

\* C18 witness: byte 165 written at offset 1 beside a 255 at offset 0 has
\* been read back.
C18_Witness ==
    /\ NvmReturned("read") /\ nvm_status = NVM_SUCCESS
    /\ nvm_written = [valid |-> TRUE, address_offset |-> 1, data |-> 165]
    /\ nvm_arg.address_offset = 1
    /\ nvm_data = 165
    /\ eeprom[0] = 255

\* C19: a read or write whose offset is not below EEPROM_SIZE_BYTES returns
\* NVM_ERROR_ADDRESS at once: no key written, no EEPROM byte read or
\* written, PECR as it was; a call that returns NVM_ERROR_UNLOCK made no
\* access to the EEPROM either.
C19_RejectedCallsTouchNothing ==
    /\ (nvm_op \in {"read", "write"}
          /\ nvm_arg.address_offset >= EEPROM_SIZE_BYTES) =>
          /\ nvm_pc = "idle"
          /\ nvm_status = NVM_ERROR_ADDRESS
          /\ nvm_keys = << >> /\ nvm_access = << >>
          /\ FLASH_PECR = nvm_entry.pecr
          /\ eeprom = nvm_entry.eeprom
          /\ nvm_op = "read" => nvm_data = Unwritten
    /\ (nvm_pc = "idle" /\ nvm_op \in {"read", "write"}
          /\ nvm_status = NVM_ERROR_UNLOCK) =>
          /\ nvm_access = << >>
          /\ eeprom = nvm_entry.eeprom
          /\ nvm_op = "read" => nvm_data = Unwritten

\* C19 witness: a write past the end was refused on an unlocked interface
\* whose EEPROM holds a written byte.
C19_Witness ==
    /\ NvmReturned("write") /\ nvm_status = NVM_ERROR_ADDRESS
    /\ nvm_arg.address_offset = EEPROM_SIZE_BYTES
    /\ PECR_PELOCK \notin FLASH_PECR
    /\ eeprom[0] = 165

(***************************************************************************)
(* The EXTI driver (exti.c).  Every function is one step.  The pending     *)
(* register is the hardware's: an edge selected by RTSR or FTSR sets a     *)
(* flag, a 1 written to a bit clears it, so that 'PR |= mask' writes back  *)
(* every flag it read.                                                     *)
(***************************************************************************)
\* The switch of _EXTI_set_trigger with the rising and falling cases only
\* setting their own selector.
EXTI_set_trigger_set_only(rtsr, ftsr, trigger, line_idx) ==
    CASE trigger = EXTI_TRIGGER_RISING_EDGE ->
            [rtsr |-> rtsr \cup {line_idx}, ftsr |-> ftsr]
      [] trigger = EXTI_TRIGGER_FALLING_EDGE ->
            [rtsr |-> rtsr, ftsr |-> ftsr \cup {line_idx}]
      [] trigger = EXTI_TRIGGER_ANY_EDGE ->
            [rtsr |-> rtsr \cup {line_idx}, ftsr |-> ftsr \cup {line_idx}]
      [] OTHER -> [rtsr |-> rtsr, ftsr |-> ftsr]

\* The switch of _EXTI_set_trigger (exti.c:33-52): the edge selectors after it.
EXTI_set_trigger(rtsr, ftsr, trigger, line_idx) ==
    CASE trigger = EXTI_TRIGGER_RISING_EDGE ->
            [rtsr |-> rtsr \cup {line_idx}, ftsr |-> ftsr \ {line_idx}]
      [] trigger = EXTI_TRIGGER_FALLING_EDGE ->
            [rtsr |-> rtsr \ {line_idx}, ftsr |-> ftsr \cup {line_idx}]
      [] trigger = EXTI_TRIGGER_ANY_EDGE ->
            [rtsr |-> rtsr \cup {line_idx}, ftsr |-> ftsr \cup {line_idx}]
      [] OTHER -> [rtsr |-> rtsr, ftsr |-> ftsr]

\* The word 'EXTI->PR |= mask' writes: the flags read, and the mask.
PrOrWord(mask) == EXTI_PR \cup mask

\* The pending flags after a word is written to EXTI->PR.
PrAfterWrite(word) == EXTI_PR \ word

\* The test of exti.c:99.
LineHasTrigger(line) ==
    (line # EXTI_RTSR_FTSR_RESERVED_INDEX) \/ (line <= EXTI_RTSR_FTSR_MAX_INDEX)

ExtiEnterCall(name, line, trigger) ==
    /\ exti_calls < MaxExtiCalls
    /\ exti_calls' = exti_calls + 1
    /\ exti_op' = [name |-> name, line |-> line, trigger |-> trigger]
    /\ exti_entry' = ExtiRegisters

\* _EXTI_set_trigger (exti.c:31-55) on the registers of the current state.
ExtiSetTriggerStep(trigger, line_idx) ==
    LET sel == EXTI_set_trigger(EXTI_RTSR, EXTI_FTSR, trigger, line_idx)
        word == PrOrWord({line_idx})
    IN  /\ EXTI_RTSR' = sel.rtsr
        /\ EXTI_FTSR' = sel.ftsr
        /\ EXTI_PR' = PrAfterWrite(word)
        /\ exti_pr_writes' = << word >>

\* EXTI_clear_all_flags (exti.c:108-111).
EXTI_clear_all_flags ==
    /\ ExtiEnterCall("clear_all_flags", 0, "none")
    /\ EXTI_PR' = PrAfterWrite(PrOrWord(EXTI_PR_ALL_FLAGS))
    /\ exti_pr_writes' = << PrOrWord(EXTI_PR_ALL_FLAGS) >>
    /\ UNCHANGED << EXTI_IMR, EXTI_RTSR, EXTI_FTSR, SYSCFG_EXTICR, NVIC_priority,
                    adc_vars, nvm_vars, rcc_vars >>

\* EXTI_init (exti.c:63-73).
EXTI_init ==
    /\ ExtiEnterCall("init", 0, "none")
    /\ RCC_APB2ENR' = RCC_APB2ENR \cup {APB2ENR_SYSCFGEN}
    /\ EXTI_IMR' = {}
    /\ EXTI_PR' = PrAfterWrite(PrOrWord(EXTI_PR_ALL_FLAGS))
    /\ exti_pr_writes' = << PrOrWord(EXTI_PR_ALL_FLAGS) >>
    /\ NVIC_priority' = [NVIC_priority EXCEPT !["NVIC_INTERRUPT_EXTI_0_1"] = 3,
                                              !["NVIC_INTERRUPT_EXTI_4_15"] = 0]
    /\ UNCHANGED << EXTI_RTSR, EXTI_FTSR, SYSCFG_EXTICR, adc_own, nvm_vars, rcc_vars >>

\* EXTI_configure_gpio (exti.c:80-88).
EXTI_configure_gpio ==
    \E gpio \in ExtiGpios, trigger \in ExtiTriggers :
       /\ ExtiEnterCall("configure_gpio", gpio.pin_index, trigger)
       /\ SYSCFG_EXTICR' = [SYSCFG_EXTICR EXCEPT ![gpio.pin_index] = gpio.port_index]
       /\ EXTI_IMR' = EXTI_IMR \cup {gpio.pin_index}
       /\ ExtiSetTriggerStep(trigger, gpio.pin_index)
       /\ UNCHANGED << NVIC_priority, adc_vars, nvm_vars, rcc_vars >>

\* EXTI_configure_line (exti.c:95-102).
EXTI_configure_line ==
    \E line \in ExtiLines, trigger \in ExtiTriggers :
       /\ ExtiEnterCall("configure_line", line, trigger)
       /\ EXTI_IMR' = EXTI_IMR \cup {line}
       /\ IF LineHasTrigger(line)
             THEN ExtiSetTriggerStep(trigger, line)
             ELSE /\ exti_pr_writes' = << >>
                  /\ UNCHANGED << EXTI_RTSR, EXTI_FTSR, EXTI_PR >>
       /\ UNCHANGED << SYSCFG_EXTICR, NVIC_priority, adc_vars, nvm_vars, rcc_vars >>

\* The hardware sees a selected edge on a line and raises its flag.
EXTI_edge ==
    \E line \in (EXTI_RTSR \cup EXTI_FTSR) \ EXTI_PR :
       /\ exti_op' = [name |-> "edge", line |-> line, trigger |-> "none"]
       /\ exti_entry' = ExtiRegisters
       /\ EXTI_PR' = EXTI_PR \cup {line}
       /\ exti_pr_writes' = << >>
       /\ UNCHANGED << EXTI_IMR, EXTI_RTSR, EXTI_FTSR, SYSCFG_EXTICR, NVIC_priority,
                       exti_calls, adc_vars, nvm_vars, rcc_vars >>

NextExti ==
    \/ EXTI_init
    \/ EXTI_configure_gpio
    \/ EXTI_configure_line
    \/ EXTI_clear_all_flags
    \/ EXTI_edge

\* The EXTI driver alone, beside drivers that are never called.
SpecExti == InitLive /\ [][NextExti]_vars

\* C15: EXTI_configure_line for the reserved line 18 or a line above 22
\* only sets the line's IMR bit: RTSR, FTSR and the pending register are as
\* they were and nothing is written to EXTI->PR.
C15_NoTriggerLinesOnlyMasked ==
    (exti_op.name = "configure_line"
        /\ (exti_op.line = EXTI_RTSR_FTSR_RESERVED_INDEX
              \/ exti_op.line > EXTI_RTSR_FTSR_MAX_INDEX)) =>
        /\ EXTI_IMR = exti_entry.imr \cup {exti_op.line}
        /\ EXTI_RTSR = exti_entry.rtsr
        /\ EXTI_FTSR = exti_entry.ftsr
        /\ EXTI_PR = exti_entry.pr
        /\ exti_pr_writes = << >>

\* The edge selectors of a line.
TriggerOf(line) ==
    [rising |-> line \in EXTI_RTSR, falling |-> line \in EXTI_FTSR]

\* C20: after EXTI_configure_gpio or EXTI_configure_line for line n, a
\* rising trigger left RTSR[n] = 1 and FTSR[n] = 0, a falling trigger
\* RTSR[n] = 0 and FTSR[n] = 1, an any-edge trigger both at 1, whatever
\* they were; an unknown trigger left every RTSR and FTSR bit as it was;
\* the RTSR, FTSR and IMR bits of every other line are as they were.
C20_TriggerBitsExact ==
    exti_op.name \in {"configure_gpio", "configure_line"} =>
        LET n == exti_op.line
            t == exti_op.trigger
        IN  /\ t = EXTI_TRIGGER_RISING_EDGE =>
                  TriggerOf(n) = [rising |-> TRUE, falling |-> FALSE]
            /\ t = EXTI_TRIGGER_FALLING_EDGE =>
                  TriggerOf(n) = [rising |-> FALSE, falling |-> TRUE]
            /\ t = EXTI_TRIGGER_ANY_EDGE =>
                  TriggerOf(n) = [rising |-> TRUE, falling |-> TRUE]
            /\ t \notin {EXTI_TRIGGER_RISING_EDGE, EXTI_TRIGGER_FALLING_EDGE,
                         EXTI_TRIGGER_ANY_EDGE} =>
                  EXTI_RTSR = exti_entry.rtsr /\ EXTI_FTSR = exti_entry.ftsr
            /\ EXTI_RTSR \ {n} = exti_entry.rtsr \ {n}
            /\ EXTI_FTSR \ {n} = exti_entry.ftsr \ {n}
            /\ EXTI_IMR \ {n} = exti_entry.imr \ {n}
            /\ n \in EXTI_IMR

\* C20 witness: pin 3, which selected the falling edge, was configured for
\* the rising edge while pin 13 keeps both of its selectors.
C20_Witness ==
    /\ exti_op = [name |-> "configure_gpio", line |-> 3,
                  trigger |-> EXTI_TRIGGER_RISING_EDGE]
    /\ 3 \in exti_entry.ftsr
    /\ 13 \in EXTI_RTSR /\ 13 \in EXTI_FTSR

(***************************************************************************)
(* The RCC driver (rcc.c).  A call runs from its entry to each read of a   *)
(* ready flag in one step; the oscillators and the clock switch are the    *)
(* environment: a flag may have risen by the time a poll reads it, or may  *)
(* stay low until the poll gives up.                                       *)
(***************************************************************************)
\* The exit test of the switch loop satisfied by any value of SWS.
SwsIsHsi_any(sws) == TRUE

\* The exit test of the loop of rcc.c:72: SWS reads '01'.
SwsIsHsi(sws) == sws = CFGR_HSI

\* 'loop_count++; if (loop_count > RCC_TIMEOUT_COUNT)' of the four loops.
RccTimedOut(count) == count > RCC_TIMEOUT_COUNT

\* FLASH_status_check and TIM21_status_check: a collaborator's failure
\* becomes the status 'error_base + status'.
RccWrapped(error_base, collaborator_status) ==
    [base |-> error_base, code |-> collaborator_status]

\* The running average of rcc.c:142 with one more sample.
LsiAverageStep(average, sample_idx, sample) ==
    ((average * sample_idx) + sample) \div (sample_idx + 1)

\* The range test of rcc.c:145.
LsiOutOfRange(frequency_hz) ==
    (frequency_hz < RCC_LSI_FREQUENCY_MIN_HZ) \/ (frequency_hz > RCC_LSI_FREQUENCY_MAX_HZ)

RccEnterCall(name) ==
    /\ rcc_pc = "idle"
    /\ rcc_calls < MaxRccCalls
    /\ rcc_calls' = rcc_calls + 1
    /\ rcc_op' = name
    /\ rcc_entry' = [cr |-> RCC_CR, sysclk_khz |-> rcc_sysclk_khz]
    /\ rcc_seen' = NothingSeen
    /\ rcc_loop_count' = 0

\* RCC_init (rcc.c:34-42).
RCC_init ==
    /\ RccEnterCall("init")
    /\ rcc_sysclk_khz' = RCC_MSI_RESET_FREQUENCY_KHZ
    /\ rcc_inited' = TRUE /\ rcc_switched' = FALSE
    /\ UNCHANGED << RCC_CR, RCC_CFGR, RCC_CSR, flash_latency, rcc_pc, rcc_status,
                    rcc_out, adc_vars, nvm_vars, exti_vars, lsi_locals >>

\* RCC_switch_to_hsi up to the first read of HSIRDYF (rcc.c:48-59).
RCC_switch_to_hsi_enter ==
    /\ RccEnterCall("switch_to_hsi")
    /\ \E flash_status \in FLASH_statuses :
          IF flash_status # FLASH_SUCCESS
             THEN /\ rcc_status' = RccWrapped(RCC_ERROR_BASE_FLASH, flash_status)
                  /\ rcc_pc' = "idle"
                  /\ UNCHANGED << RCC_CR, flash_latency >>
             ELSE /\ flash_latency' = 1
                  /\ RCC_CR' = RCC_CR \cup {CR_HSI16ON}
                  /\ rcc_status' = RCC_SUCCESS
                  /\ rcc_pc' = "hsi_poll"
    /\ UNCHANGED << rcc_sysclk_khz, RCC_CFGR, RCC_CSR, rcc_out, rcc_inited,
                    rcc_switched, adc_vars, nvm_vars, exti_vars, lsi_locals >>

\* One read of HSIRDYF in the loop of rcc.c:59-66; once it reads set, the
\* SW field is written (rcc.c:68-71).
RCC_switch_to_hsi_ready_poll ==
    /\ rcc_pc = "hsi_poll"
    /\ \E stable \in BOOLEAN :
          LET cr == IF stable /\ CR_HSI16ON \in RCC_CR
                       THEN RCC_CR \cup {CR_HSIRDYF} ELSE RCC_CR
          IN  /\ RCC_CR' = cr
              /\ IF CR_HSIRDYF \notin cr
                    THEN /\ rcc_loop_count' = rcc_loop_count + 1
                         /\ IF RccTimedOut(rcc_loop_count + 1)
                               THEN /\ rcc_status' = RCC_ERROR_HSI_READY
                                    /\ rcc_pc' = "idle"
                               ELSE UNCHANGED << rcc_status, rcc_pc >>
                         /\ UNCHANGED << RCC_CFGR, rcc_seen >>
                    ELSE /\ RCC_CFGR' = [RCC_CFGR EXCEPT !.sw = CFGR_HSI]
                         /\ rcc_seen' = [rcc_seen EXCEPT !.hsirdy = TRUE]
                         /\ rcc_loop_count' = 0
                         /\ rcc_pc' = "sws_poll"
                         /\ UNCHANGED rcc_status
    /\ UNCHANGED << rcc_sysclk_khz, RCC_CSR, flash_latency, rcc_op, rcc_out,
                    rcc_calls, rcc_entry, rcc_inited, rcc_switched, adc_vars,
                    nvm_vars, exti_vars, lsi_locals >>

\* One read of SWS in the loop of rcc.c:72-79; once it reads HSI, the MSI
\* is turned off and the frequency recorded (rcc.c:81-85).
RCC_switch_to_hsi_switch_poll ==
    /\ rcc_pc = "sws_poll"
    /\ \E switched \in BOOLEAN :
          LET cfgr == IF switched THEN [RCC_CFGR EXCEPT !.sws = RCC_CFGR.sw]
                                  ELSE RCC_CFGR
          IN  /\ RCC_CFGR' = cfgr
              /\ rcc_seen' = [rcc_seen EXCEPT !.sws = cfgr.sws]
              /\ IF ~SwsIsHsi(cfgr.sws)
                    THEN /\ rcc_loop_count' = rcc_loop_count + 1
                         /\ IF RccTimedOut(rcc_loop_count + 1)
                               THEN /\ rcc_status' = RCC_ERROR_HSI_SWITCH
                                    /\ rcc_pc' = "idle"
                               ELSE UNCHANGED << rcc_status, rcc_pc >>
                         /\ UNCHANGED << RCC_CR, rcc_sysclk_khz, rcc_switched >>
                    ELSE /\ RCC_CR' = RCC_CR \ {CR_MSION}
                         /\ rcc_sysclk_khz' = RCC_HSI_FREQUENCY_KHZ
                         /\ rcc_switched' = TRUE
                         /\ rcc_pc' = "idle"
                         /\ UNCHANGED << rcc_status, rcc_loop_count >>
    /\ UNCHANGED << RCC_CSR, flash_latency, rcc_op, rcc_out, rcc_calls, rcc_entry,
                    rcc_inited, adc_vars, nvm_vars, exti_vars, lsi_locals >>

\* RCC_get_sysclk_khz (rcc.c:92-94).
RCC_get_sysclk_khz ==
    /\ RccEnterCall("get_sysclk_khz")
    /\ rcc_out' = rcc_sysclk_khz
    /\ UNCHANGED << rcc_sysclk_khz, RCC_CR, RCC_CFGR, RCC_CSR, flash_latency,
                    rcc_pc, rcc_status, rcc_inited, rcc_switched, adc_vars,
                    nvm_vars, exti_vars, lsi_locals >>

\* RCC_enable_lsi and RCC_enable_lse up to the first read of their ready
\* flag (rcc.c:100-107, 159-168).
RCC_enable_oscillator_enter ==
    /\ \E osc \in {"lsi", "lse"} :
          /\ RccEnterCall("enable_" \o osc)
          /\ RCC_CSR' = RCC_CSR \cup {IF osc = "lsi" THEN CSR_LSION ELSE CSR_LSEON}
          /\ rcc_pc' = osc \o "_poll"
    /\ rcc_status' = RCC_SUCCESS
    /\ UNCHANGED << rcc_sysclk_khz, RCC_CR, RCC_CFGR, flash_latency, rcc_out,
                    rcc_inited, rcc_switched, adc_vars, nvm_vars, exti_vars, lsi_locals >>

\* One read of LSIRDY in the loop of RCC_enable_lsi (rcc.c:107-114).
RCC_enable_lsi_poll ==
    /\ rcc_pc = "lsi_poll"
    /\ \E stable \in BOOLEAN :
          LET csr == IF stable THEN RCC_CSR \cup {CSR_LSIRDY} ELSE RCC_CSR
          IN  /\ RCC_CSR' = csr
              /\ IF CSR_LSIRDY \notin csr
                    THEN /\ rcc_loop_count' = rcc_loop_count + 1
                         /\ IF RccTimedOut(rcc_loop_count + 1)
                               THEN /\ rcc_status' = RCC_ERROR_LSI_READY
                                    /\ rcc_pc' = "idle"
                               ELSE UNCHANGED << rcc_status, rcc_pc >>
                    ELSE /\ rcc_pc' = "idle"
                         /\ UNCHANGED << rcc_status, rcc_loop_count >>
    /\ UNCHANGED << rcc_sysclk_khz, RCC_CR, RCC_CFGR, flash_latency, rcc_op,
                    rcc_out, rcc_calls, rcc_entry, rcc_seen, rcc_inited,
                    rcc_switched, adc_vars, nvm_vars, exti_vars, lsi_locals >>

\* One read of LSERDY in the loop of RCC_enable_lse (rcc.c:168-176); the
\* timeout turns the LSE off again.
RCC_enable_lse_poll ==
    /\ rcc_pc = "lse_poll"
    /\ \E stable \in BOOLEAN :
          LET csr == IF stable THEN RCC_CSR \cup {CSR_LSERDY} ELSE RCC_CSR
          IN  IF CSR_LSERDY \notin csr
                 THEN /\ rcc_loop_count' = rcc_loop_count + 1
                      /\ IF RccTimedOut(rcc_loop_count + 1)
                            THEN /\ RCC_CSR' = csr \ {CSR_LSEON}
                                 /\ rcc_status' = RCC_ERROR_LSE_READY
                                 /\ rcc_pc' = "idle"
                            ELSE /\ RCC_CSR' = csr
                                 /\ UNCHANGED << rcc_status, rcc_pc >>
                 ELSE /\ RCC_CSR' = csr
                      /\ rcc_pc' = "idle"
                      /\ UNCHANGED << rcc_status, rcc_loop_count >>
    /\ UNCHANGED << rcc_sysclk_khz, RCC_CR, RCC_CFGR, flash_latency, rcc_op,
                    rcc_out, rcc_calls, rcc_entry, rcc_seen, rcc_inited,
                    rcc_switched, adc_vars, nvm_vars, exti_vars, lsi_locals >>

\* RCC_get_lsi_frequency up to its first measurement (rcc.c:122-138): the
\* result reset and the measurement timer started; a null pointer goes to
\* 'errors', where the timer is disabled (rcc.c:150-152).
RCC_get_lsi_frequency_enter ==
    /\ RccEnterCall("get_lsi_frequency")
    /\ rcc_sample_idx' = 0
    /\ \E ptr \in {"NULL", "lsi_frequency_hz"} :
          IF ptr = "NULL"
             THEN /\ rcc_status' = RCC_ERROR_NULL_PARAMETER
                  /\ rcc_out' = Unwritten
                  /\ TIM21_enabled' = FALSE
                  /\ rcc_pc' = "idle"
             ELSE /\ rcc_status' = RCC_SUCCESS
                  /\ rcc_out' = 0
                  /\ TIM21_enabled' = TRUE
                  /\ rcc_pc' = "lsi_measure"
    /\ UNCHANGED << rcc_sysclk_khz, RCC_CR, RCC_CFGR, RCC_CSR, flash_latency,
                    rcc_inited, rcc_switched, adc_vars, nvm_vars, exti_vars >>

\* One pass of the loop of rcc.c:138-143: a blocking measurement, which can
\* fail, and the running average stored through the pointer; after the
\* last pass the range test and the 'errors' label (rcc.c:145-152).
RCC_get_lsi_frequency_measure ==
    /\ rcc_pc = "lsi_measure"
    /\ \E tim21_status \in TIM_statuses, lsi_frequency_sample \in LsiSamples :
          LET average == LsiAverageStep(rcc_out, rcc_sample_idx, lsi_frequency_sample)
          IN  IF tim21_status # TIM_SUCCESS
                 THEN /\ rcc_status' = RccWrapped(RCC_ERROR_BASE_TIM, tim21_status)
                      /\ TIM21_enabled' = FALSE
                      /\ rcc_pc' = "idle"
                      /\ UNCHANGED << rcc_out, rcc_sample_idx >>
                 ELSE /\ rcc_sample_idx' = rcc_sample_idx + 1
                      /\ IF rcc_sample_idx + 1 < RCC_LSI_AVERAGING_COUNT
                            THEN /\ rcc_out' = average
                                 /\ UNCHANGED << rcc_status, TIM21_enabled, rcc_pc >>
                            ELSE /\ IF LsiOutOfRange(average)
                                       THEN /\ rcc_out' = RCC_LSI_FREQUENCY_HZ
                                            /\ rcc_status' = RCC_ERROR_LSI_MEASUREMENT
                                       ELSE /\ rcc_out' = average
                                            /\ UNCHANGED rcc_status
                                 /\ TIM21_enabled' = FALSE
                                 /\ rcc_pc' = "idle"
    /\ UNCHANGED << rcc_sysclk_khz, RCC_CR, RCC_CFGR, RCC_CSR, flash_latency,
                    rcc_op, rcc_loop_count, rcc_calls, rcc_entry, rcc_seen,
                    rcc_inited, rcc_switched, adc_vars, nvm_vars, exti_vars >>

NextRcc ==
    \/ RCC_init
    \/ RCC_switch_to_hsi_enter
    \/ RCC_switch_to_hsi_ready_poll
    \/ RCC_switch_to_hsi_switch_poll
    \/ RCC_get_sysclk_khz
    \/ RCC_enable_oscillator_enter
    \/ RCC_enable_lsi_poll
    \/ RCC_enable_lse_poll
    \/ RCC_get_lsi_frequency_enter
    \/ RCC_get_lsi_frequency_measure

\* The RCC driver alone, beside drivers that are never called.
SpecRcc == InitLive /\ [][NextRcc]_vars

RccReturned(name) == rcc_pc = "idle" /\ rcc_op = name

\* C16: RCC_switch_to_hsi clears MSION only in the step in which it read
\* SWS as HSI, after it read HSIRDYF set, and then returns success; a call
\* that returned a failure (flash latency, HSI ready timeout, switch
\* timeout) left MSION as it found it.
C16_MsiOffOnlyAfterSwitch ==
    /\ [][(CR_MSION \in RCC_CR /\ CR_MSION \notin RCC_CR') =>
            /\ rcc_pc = "sws_poll" /\ rcc_op = "switch_to_hsi"
            /\ rcc_seen.hsirdy
            /\ rcc_seen'.sws = CFGR_HSI
            /\ CR_HSIRDYF \in RCC_CR
            /\ rcc_pc' = "idle" /\ rcc_status' = RCC_SUCCESS]_vars
    /\ []((RccReturned("switch_to_hsi") /\ rcc_status # RCC_SUCCESS) =>
            /\ (CR_MSION \in RCC_CR) = (CR_MSION \in rcc_entry.cr)
            /\ rcc_status \in
                  {RCC_ERROR_HSI_READY, RCC_ERROR_HSI_SWITCH}
                     \cup {RccWrapped(RCC_ERROR_BASE_FLASH, f) :
                              f \in FLASH_statuses \ {FLASH_SUCCESS}})
    /\ []((rcc_op = "switch_to_hsi" /\ rcc_pc # "idle") =>
            (CR_MSION \in RCC_CR) = (CR_MSION \in rcc_entry.cr))

\* C16 witness: a switch returned success with the MSI off, having waited
\* for the clock switch.
C16_Witness ==
    /\ RccReturned("switch_to_hsi") /\ rcc_status = RCC_SUCCESS
    /\ CR_MSION \in rcc_entry.cr /\ CR_MSION \notin RCC_CR
    /\ rcc_seen = [hsirdy |-> TRUE, sws |-> CFGR_HSI]
    /\ RCC_CFGR = [sw |-> CFGR_HSI, sws |-> CFGR_HSI]

\* C17: once RCC_init has been called, RCC_get_sysclk_khz returns 2100
\* until a RCC_switch_to_hsi that follows the last RCC_init has returned
\* success and RCC_HSI_FREQUENCY_KHZ from then on; the recorded frequency
\* changes only in RCC_init and in the successful return of
\* RCC_switch_to_hsi.
C17_RecordedFrequency ==
    /\ [](rcc_inited =>
            /\ rcc_sysclk_khz = IF rcc_switched THEN RCC_HSI_FREQUENCY_KHZ ELSE 2100
            /\ RccReturned("get_sysclk_khz") => rcc_out = rcc_sysclk_khz)
    /\ [][rcc_sysclk_khz' # rcc_sysclk_khz =>
            \/ rcc_op' = "init"
            \/ /\ rcc_op = "switch_to_hsi" /\ rcc_pc' = "idle"
               /\ rcc_status' = RCC_SUCCESS]_vars

\* C17 witness: RCC_get_sysclk_khz returned the HSI frequency after a
\* successful switch.
C17_Witness ==
    /\ RccReturned("get_sysclk_khz") /\ rcc_inited /\ rcc_switched
    /\ rcc_out = RCC_HSI_FREQUENCY_KHZ
    /\ rcc_out # 2100

====
